---- MODULE Spec2Model ----
(***************************************************************************)
(* Vedic chart core of tapiocaboy/vedi: the sign / mansion classifier      *)
(* (core/rashi.py, core/nakshatra.py) and the Vimshottari Dasha timeline   *)
(* engine (core/dasha.py) with its service wrapper.                        *)
(*                                                                         *)
(* Numbers.  A Python float is modelled by the rational <<n, d>> (d > 0,   *)
(* lowest terms) it stands for; arithmetic on rationals is exact.  The two *)
(* places where the code leaves the rationals are modelled as the code     *)
(* performs them:                                                          *)
(*   - datetime + timedelta(days = x): the duration is rounded half-even   *)
(*     to a whole number of microseconds (TdFromDays);                     *)
(*   - x % 360 on a negative float: the remainder is moved into range by   *)
(*     a rounded addition r + 360 (PyFloatMod).                            *)
(* An instant is <<day, second, microsecond>> with day counted from        *)
(* 1970-01-01, the three fields of a Python datetime / timedelta.          *)
(***************************************************************************)
EXTENDS Integers, Sequences, FiniteSets, TLC

----------------------------------------------------------------------------
(* Exact rational arithmetic standing for float arithmetic.                *)

RECURSIVE GCD(_, _)
GCD(a, b) ==
    IF b = 0 THEN a ELSE GCD(b, a % b)

Abs(x) ==
    IF x < 0 THEN -x ELSE x

Rat(n, d) ==
    LET g == GCD(Abs(n), Abs(d))
        s == IF d < 0 THEN -1 ELSE 1
    IN  << (s * n) \div g, (s * d) \div g >>

RInt(k) ==
    << k, 1 >>

RAdd(x, y) ==
    LET g == GCD(x[2], y[2])
        l == (x[2] \div g) * y[2]
    IN  Rat(x[1] * (l \div x[2]) + y[1] * (l \div y[2]), l)

RNeg(x) ==
    << -x[1], x[2] >>

RSub(x, y) ==
    RAdd(x, RNeg(y))

RMul(x, y) ==
    LET g1 == GCD(Abs(x[1]), y[2])
        g2 == GCD(Abs(y[1]), x[2])
    IN  << (x[1] \div g1) * (y[1] \div g2), (x[2] \div g2) * (y[2] \div g1) >>

RDiv(x, y) ==
    RMul(x, IF y[1] < 0 THEN << -y[2], -y[1] >> ELSE << y[2], y[1] >>)

RFloor(x) ==
    x[1] \div x[2]

\* x < y: by the whole parts, then by the fractional parts
RLt(x, y) ==
    \/ RFloor(x) < RFloor(y)
    \/ /\ RFloor(x) = RFloor(y)
       /\ (x[1] % x[2]) * y[2] < (y[1] % y[2]) * x[2]

RLe(x, y) ==
    x = y \/ RLt(x, y)

\* int(x): truncation toward zero
RTrunc(x) ==
    IF x[1] >= 0 THEN x[1] \div x[2] ELSE -((-x[1]) \div x[2])

----------------------------------------------------------------------------
(* x % m for floats, m > 0 (rashi.py:92, nakshatra.py:156).  CPython takes *)
(* r = fmod(x, m), which is exact and has the sign of x, and when r < 0    *)
(* returns the float sum r + m.  A binary64 sum that lies within half a    *)
(* unit in the last place of m is m itself, so a tiny negative x yields m  *)
(* and not a value below m.  The spacing of binary64 values at 360 is      *)
(* 2^-44; the model keeps the mechanism with a spacing that its rationals  *)
(* can hold.                                                               *)

HalfUlp360 ==
    << 1, 65536 >>

FloatSum360(r) ==
    IF RLt(RNeg(r), HalfUlp360) THEN RInt(360) ELSE RAdd(r, RInt(360))

PyFloatMod360(x) ==
    LET r == RSub(x, RMul(RInt(360), RInt(RTrunc(RDiv(x, RInt(360))))))
    IN  IF r[1] < 0 THEN FloatSum360(r) ELSE r

\* x % m for 0 <= x: fmod alone, exact
PyFloatModPos(x, m) ==
    RSub(x, RMul(m, RInt(RFloor(RDiv(x, m)))))

----------------------------------------------------------------------------
(* core/rashi.py                                                           *)

RASHIS ==
    << "Mesha", "Vrishabha", "Mithuna", "Karka", "Simha", "Kanya",
       "Tula", "Vrischika", "Dhanu", "Makara", "Kumbha", "Meena" >>

\* The result is the tuple (rashi_index, rashi_name, degree_in_rashi), or
\* the IndexError that RASHIS[rashi_index] raises for an index past 11.
get_rashi(sidereal_longitude) ==
    LET longitude == PyFloatMod360(sidereal_longitude)
        rashi_index == RTrunc(RDiv(longitude, RInt(30)))
        degree_in_rashi == PyFloatModPos(longitude, RInt(30))
    IN  IF rashi_index + 1 \in DOMAIN RASHIS
        THEN [raised |-> "none", index |-> rashi_index,
              name |-> RASHIS[rashi_index + 1], degree |-> degree_in_rashi]
        ELSE [raised |-> "IndexError"]

----------------------------------------------------------------------------
(* core/nakshatra.py                                                       *)

NAKSHATRAS ==
    << << "Ashwini", "Ketu" >>, << "Bharani", "Venus" >>,
       << "Krittika", "Sun" >>, << "Rohini", "Moon" >>,
       << "Mrigashira", "Mars" >>, << "Ardra", "Rahu" >>,
       << "Punarvasu", "Jupiter" >>, << "Pushya", "Saturn" >>,
       << "Ashlesha", "Mercury" >>, << "Magha", "Ketu" >>,
       << "Purva Phalguni", "Venus" >>, << "Uttara Phalguni", "Sun" >>,
       << "Hasta", "Moon" >>, << "Chitra", "Mars" >>,
       << "Swati", "Rahu" >>, << "Vishakha", "Jupiter" >>,
       << "Anuradha", "Saturn" >>, << "Jyeshtha", "Mercury" >>,
       << "Mula", "Ketu" >>, << "Purva Ashadha", "Venus" >>,
       << "Uttara Ashadha", "Sun" >>, << "Shravana", "Moon" >>,
       << "Dhanishta", "Mars" >>, << "Shatabhisha", "Rahu" >>,
       << "Purva Bhadrapada", "Jupiter" >>, << "Uttara Bhadrapada", "Saturn" >>,
       << "Revati", "Mercury" >> >>

\* 360.0 / 27.0
NAKSHATRA_SPAN ==
    Rat(360, 27)

\* NAKSHATRA_SPAN / 4.0
PADA_SPAN ==
    RDiv(NAKSHATRA_SPAN, RInt(4))

Min(a, b) ==
    IF a <= b THEN a ELSE b

Range(s) ==
    { s[i] : i \in DOMAIN s }

\* F applied to the value of v, v evaluated once
Bind(v, F(_)) ==
    CHOOSE r \in { F(x) : x \in {v} } : TRUE

\* binary64 holds 360.0 / 27.0 as a value a fraction of a unit in the last
\* place above 40/3, and fmod is exact on the values it is given.  So the
\* remainder of a longitude in mansion q falls short of the true degree by
\* q times that excess: too little to show in a degree, except where the
\* true degree is a whole number of padas, which is then missed from
\* below.  binary64 holds such a longitude exactly only when it is a whole
\* number of degrees.  The model keeps the mechanism with an excess that
\* its rationals can hold.
SpanExcess ==
    << 1, 48 >>

OnShiftedBoundary(longitude) ==
    /\ longitude[2] = 1
    /\ RLe(NAKSHATRA_SPAN, longitude)
    /\ PyFloatModPos(longitude, PADA_SPAN)[1] = 0

\* longitude % NAKSHATRA_SPAN
PyFloatModSpan(longitude) ==
    LET r == PyFloatModPos(longitude, NAKSHATRA_SPAN)
    IN  IF OnShiftedBoundary(longitude) /\ r[1] = 0
        THEN RSub(NAKSHATRA_SPAN, SpanExcess)
        ELSE r

\* int(nak_degree / PADA_SPAN)
PadaQuotient(longitude, nak_degree) ==
    IF OnShiftedBoundary(longitude) /\ RDiv(nak_degree, PADA_SPAN)[2] = 1
    THEN RTrunc(RDiv(nak_degree, PADA_SPAN)) - 1
    ELSE RTrunc(RDiv(nak_degree, PADA_SPAN))

get_nakshatra(sidereal_longitude) ==
    LET longitude == PyFloatMod360(sidereal_longitude)
        nak_index == Min(RTrunc(RDiv(longitude, NAKSHATRA_SPAN)), 26)
        nak_degree == PyFloatModSpan(longitude)
        pada == Min(PadaQuotient(longitude, nak_degree) + 1, 4)
    IN  [index |-> nak_index,
         name |-> NAKSHATRAS[nak_index + 1][1],
         lord |-> NAKSHATRAS[nak_index + 1][2],
         pada |-> pada,
         degree |-> nak_degree]

----------------------------------------------------------------------------
(* Instants and durations: the fields of datetime and timedelta.           *)

SecondsPerDay ==
    86400

MicrosPerSecond ==
    1000000

\* The proleptic Gregorian calendar of datetime, days counted from 1970-01-01.
DaysFromCivil(y, m, d) ==
    LET yy == IF m <= 2 THEN y - 1 ELSE y
        era == yy \div 400
        yoe == yy - era * 400
        mp == IF m > 2 THEN m - 3 ELSE m + 9
        doy == (153 * mp + 2) \div 5 + d - 1
        doe == yoe * 365 + yoe \div 4 - yoe \div 100 + doy
    IN  era * 146097 + doe - 719468

CivilFromDays(z) ==
    LET zz == z + 719468
        era == zz \div 146097
        doe == zz - era * 146097
        yoe == (doe - doe \div 1460 + doe \div 36524 - doe \div 146096) \div 365
        doy == doe - (365 * yoe + yoe \div 4 - yoe \div 100)
        mp == (5 * doy + 2) \div 153
        d == doy - (153 * mp + 2) \div 5 + 1
        m == IF mp < 10 THEN mp + 3 ELSE mp - 9
        y == yoe + era * 400 + (IF m <= 2 THEN 1 ELSE 0)
    IN  << y, m, d >>

IsLeap(y) ==
    (y % 4 = 0) /\ ((y % 100 # 0) \/ (y % 400 = 0))

DaysInMonth(y, m) ==
    IF m = 2 THEN (IF IsLeap(y) THEN 29 ELSE 28)
    ELSE IF m \in {4, 6, 9, 11} THEN 30 ELSE 31

\* datetime(y, m, d, hh, mm, ss)
DateTime(y, m, d, hh, mm, ss) ==
    << DaysFromCivil(y, m, d), hh * 3600 + mm * 60 + ss, 0 >>

\* a <= b and a < b on datetimes
DtLe(a, b) ==
    \/ a[1] < b[1]
    \/ a[1] = b[1] /\ a[2] < b[2]
    \/ a[1] = b[1] /\ a[2] = b[2] /\ a[3] <= b[3]

DtLt(a, b) ==
    DtLe(a, b) /\ a # b

\* datetime + timedelta, with timedelta's normalised fields
DtAdd(dt, td) ==
    LET us == dt[3] + td[3]
        s == dt[2] + td[2] + us \div MicrosPerSecond
    IN  << dt[1] + td[1] + s \div SecondsPerDay,
           s % SecondsPerDay, us % MicrosPerSecond >>

\* timedelta(days = x) for a float x >= 0: x days as a whole number of
\* microseconds, rounded half to even, normalised to (days, seconds,
\* microseconds).  The division is carried out unit by unit.
TdFromDays(x) ==
    LET n == x[1]
        d == x[2]
        days == n \div d
        r0 == n % d
        hh == (r0 * 24) \div d
        r1 == (r0 * 24) % d
        mm == (r1 * 60) \div d
        r2 == (r1 * 60) % d
        ss == (r2 * 60) \div d
        r3 == (r2 * 60) % d
        ms == (r3 * 1000) \div d
        r4 == (r3 * 1000) % d
        us == (r4 * 1000) \div d
        r5 == (r4 * 1000) % d
        micro == ms * 1000 + us
        up == IF 2 * r5 > d \/ (2 * r5 = d /\ micro % 2 = 1) THEN 1 ELSE 0
    IN  DtAdd(<< days, hh * 3600 + mm * 60 + ss, micro >>, << 0, 0, up >>)

\* dt + relativedelta(years = n): same month and day n years on, the day
\* clipped to the length of the month
AddYears(dt, n) ==
    LET c == CivilFromDays(dt[1])
        y == c[1] + n
        dd == Min(c[3], DaysInMonth(y, c[2]))
    IN  << DaysFromCivil(y, c[2], dd), dt[2], dt[3] >>

----------------------------------------------------------------------------
(* core/dasha.py                                                           *)

DASHA_SEQUENCE ==
    << "Ketu", "Venus", "Sun", "Moon", "Mars",
       "Rahu", "Jupiter", "Saturn", "Mercury" >>

DASHA_YEARS ==
    [lord \in {"Ketu", "Venus", "Sun", "Moon", "Mars",
               "Rahu", "Jupiter", "Saturn", "Mercury"} |->
        CASE lord = "Ketu" -> 7
          [] lord = "Venus" -> 20
          [] lord = "Sun" -> 6
          [] lord = "Moon" -> 10
          [] lord = "Mars" -> 7
          [] lord = "Rahu" -> 18
          [] lord = "Jupiter" -> 16
          [] lord = "Saturn" -> 19
          [] lord = "Mercury" -> 17]

TOTAL_DASHA_YEARS ==
    120

\* 365.25
DAYS_PER_YEAR ==
    Rat(1461, 4)

\* DASHA_SEQUENCE.index(lord), 0-based
SequenceIndex(lord) ==
    (CHOOSE i \in DOMAIN DASHA_SEQUENCE : DASHA_SEQUENCE[i] = lord) - 1

contains_date_HalfOpen(period, date) ==
    DtLe(period.start, date) /\ DtLt(date, period.end)

\* contains_date of the three period classes
contains_date(period, date) ==
    DtLe(period.start, date) /\ DtLe(date, period.end)

get_birth_dasha_lord(nakshatra) ==
    nakshatra.lord

get_elapsed_dasha_portion_PadaSpan(nakshatra) ==
    RDiv(nakshatra.degree, PADA_SPAN)

get_elapsed_dasha_portion(nakshatra) ==
    RDiv(nakshatra.degree, NAKSHATRA_SPAN)

calculate_dasha_balance(nakshatra, birth_dt) ==
    LET birth_lord == get_birth_dasha_lord(nakshatra)
        total_years == DASHA_YEARS[birth_lord]
        elapsed_fraction == get_elapsed_dasha_portion(nakshatra)
        remaining_years == RMul(RInt(total_years), RSub(RInt(1), elapsed_fraction))
        remaining_days == RMul(remaining_years, DAYS_PER_YEAR)
        end_date == DtAdd(birth_dt, TdFromDays(remaining_days))
    IN  [lord |-> birth_lord,
         total_years |-> total_years,
         elapsed_fraction |-> elapsed_fraction,
         elapsed_years |-> RMul(RInt(total_years), elapsed_fraction),
         remaining_years |-> remaining_years,
         remaining_days |-> remaining_days,
         end_date |-> end_date]

\* the while loop of generate_mahadasha_timeline
RECURSIVE MahadashaLoop(_, _, _, _, _)
MahadashaLoop(timeline, start_idx, current_date, max_date, cycle) ==
    IF DtLt(current_date, max_date)
    THEN LET lord_idx == (start_idx + cycle) % 9
             lord == DASHA_SEQUENCE[lord_idx + 1]
             years == DASHA_YEARS[lord]
             days == RMul(RInt(years), DAYS_PER_YEAR)
             end_date == DtAdd(current_date, TdFromDays(days))
         IN  MahadashaLoop(
                 Append(timeline,
                        [lord |-> lord, start |-> current_date, end |-> end_date,
                         years |-> RInt(years), days |-> days,
                         is_birth_dasha |-> FALSE]),
                 start_idx, end_date, max_date, cycle + 1)
    ELSE timeline

FirstDasha(balance, birth_dt) ==
    [lord |-> balance.lord, start |-> birth_dt, end |-> balance.end_date,
     years |-> balance.remaining_years, days |-> balance.remaining_days,
     is_birth_dasha |-> TRUE]

generate_mahadasha_timeline_CycleZero(nakshatra, birth_dt, years_ahead) ==
    Bind(calculate_dasha_balance(nakshatra, birth_dt), LAMBDA balance :
        MahadashaLoop(<< FirstDasha(balance, birth_dt) >>,
                      SequenceIndex(balance.lord), balance.end_date,
                      AddYears(birth_dt, years_ahead), 0))

\* (a variant that generates for 20 years beyond the horizon)
generate_mahadasha_timeline_Overshoot(nakshatra, birth_dt, years_ahead) ==
    Bind(calculate_dasha_balance(nakshatra, birth_dt), LAMBDA balance :
        MahadashaLoop(<< FirstDasha(balance, birth_dt) >>,
                      SequenceIndex(balance.lord), balance.end_date,
                      AddYears(birth_dt, years_ahead + 20), 1))

generate_mahadasha_timeline(nakshatra, birth_dt, years_ahead) ==
    Bind(calculate_dasha_balance(nakshatra, birth_dt), LAMBDA balance :
        MahadashaLoop(<< FirstDasha(balance, birth_dt) >>,
                      SequenceIndex(balance.lord), balance.end_date,
                      AddYears(birth_dt, years_ahead), 1))

\* "Proportional calculation": the days of one sub-period
AntardashaDays365(md_years, ad_base_years) ==
    RDiv(RMul(RMul(md_years, RInt(ad_base_years)), RInt(365)),
         RInt(TOTAL_DASHA_YEARS))

AntardashaDays(md_years, ad_base_years) ==
    RDiv(RMul(RMul(md_years, RInt(ad_base_years)), DAYS_PER_YEAR),
         RInt(TOTAL_DASHA_YEARS))

\* the for loop of calculate_antardasha, i = 0..8
RECURSIVE AntardashaLoop(_, _, _, _, _)
AntardashaLoop(antardashas, mahadasha, start_idx, current_date, i) ==
    IF i < 9
    THEN LET ad_lord_idx == (start_idx + i) % 9
             ad_lord == DASHA_SEQUENCE[ad_lord_idx + 1]
             ad_base_years == DASHA_YEARS[ad_lord]
             ad_days == AntardashaDays(mahadasha.years, ad_base_years)
             end_date == DtAdd(current_date, TdFromDays(ad_days))
         IN  AntardashaLoop(
                 Append(antardashas,
                        [lord |-> ad_lord, start |-> current_date, end |-> end_date,
                         days |-> ad_days, mahadasha_lord |-> mahadasha.lord]),
                 mahadasha, start_idx, end_date, i + 1)
    ELSE antardashas

calculate_antardasha_FromKetu(mahadasha) ==
    AntardashaLoop(<< >>, mahadasha, 0, mahadasha.start, 0)

calculate_antardasha(mahadasha) ==
    AntardashaLoop(<< >>, mahadasha, SequenceIndex(mahadasha.lord),
                   mahadasha.start, 0)

\* "Further proportional breakdown": the days of one sub-sub-period
PratyantardashaDaysPerCent(ad_days, pd_base_years) ==
    RDiv(RMul(ad_days, RInt(pd_base_years)), RInt(100))

PratyantardashaDays(ad_days, pd_base_years) ==
    RDiv(RMul(ad_days, RInt(pd_base_years)), RInt(TOTAL_DASHA_YEARS))

\* the for loop of calculate_pratyantardasha, i = 0..8
RECURSIVE PratyantardashaLoop(_, _, _, _, _)
PratyantardashaLoop(pratyantars, antardasha, start_idx, current_date, i) ==
    IF i < 9
    THEN LET pd_lord_idx == (start_idx + i) % 9
             pd_lord == DASHA_SEQUENCE[pd_lord_idx + 1]
             pd_base_years == DASHA_YEARS[pd_lord]
             pd_days == PratyantardashaDays(antardasha.days, pd_base_years)
             end_date == DtAdd(current_date, TdFromDays(pd_days))
         IN  PratyantardashaLoop(
                 Append(pratyantars,
                        [lord |-> pd_lord, start |-> current_date, end |-> end_date,
                         days |-> pd_days,
                         mahadasha_lord |-> antardasha.mahadasha_lord,
                         antardasha_lord |-> antardasha.lord]),
                 antardasha, start_idx, end_date, i + 1)
    ELSE pratyantars

calculate_pratyantardasha(antardasha) ==
    PratyantardashaLoop(<< >>, antardasha, SequenceIndex(antardasha.lord),
                        antardasha.start, 0)

\* "for p in periods: if p.contains_date(target): current = p; break":
\* the position of the first period that contains the date, 0 for None
FirstContaining(periods, date) ==
    LET hits == {k \in DOMAIN periods : contains_date(periods[k], date)}
    IN  IF hits = {} THEN 0 ELSE CHOOSE k \in hits : \A j \in hits : k <= j

NoPeriod ==
    [lord |-> "None"]

\* get_current_periods from "Find current Pratyantardasha" on
CurrentPratyantardasha(current_md, current_ad, target_date) ==
    Bind(calculate_pratyantardasha(current_ad), LAMBDA pratyantars :
    Bind(FirstContaining(pratyantars, target_date), LAMBDA p :
        [target_date |-> target_date,
         mahadasha |-> [lord |-> current_md.lord, start |-> current_md.start,
                        end |-> current_md.end, years |-> current_md.years],
         antardasha |-> [lord |-> current_ad.lord, start |-> current_ad.start,
                         end |-> current_ad.end, days |-> current_ad.days],
         pratyantardasha |->
             IF p = 0 THEN NoPeriod
             ELSE [lord |-> pratyantars[p].lord, start |-> pratyantars[p].start,
                   end |-> pratyantars[p].end, days |-> pratyantars[p].days]]))

\* get_current_periods from "Find current Antardasha" on
CurrentAntardasha(current_md, target_date) ==
    Bind(calculate_antardasha(current_md), LAMBDA antardashas :
    Bind(FirstContaining(antardashas, target_date), LAMBDA a :
        IF a = 0
        THEN [error |-> "Could not find current Antardasha"]
        ELSE CurrentPratyantardasha(current_md, antardashas[a], target_date)))

get_current_periods(nakshatra, birth_dt, target_date) ==
    Bind(generate_mahadasha_timeline(nakshatra, birth_dt, 120), LAMBDA mahadashas :
    Bind(FirstContaining(mahadashas, target_date), LAMBDA m :
        IF m = 0
        THEN [error |-> "Target date is outside the dasha timeline"]
        ELSE CurrentAntardasha(mahadashas[m], target_date)))

----------------------------------------------------------------------------
(* services/chart_service.py: ChartService.get_current_periods.  The       *)
(* calculator is the one _create_dasha_calculator builds; an error result  *)
(* of the core is raised as ValueError, anything else is repackaged.       *)

CurrentDashaResponse(current) ==
    IF "error" \in DOMAIN current
    THEN [raised |-> "ValueError", message |-> current.error]
    ELSE [raised |-> "none",
          target_date |-> current.target_date,
          mahadasha |-> [lord |-> current.mahadasha.lord,
                         start |-> current.mahadasha.start,
                         end |-> current.mahadasha.end,
                         is_birth_dasha |-> FALSE],
          antardasha |-> [lord |-> current.antardasha.lord,
                          start |-> current.antardasha.start,
                          end |-> current.antardasha.end,
                          mahadasha_lord |-> current.mahadasha.lord],
          pratyantardasha |->
              IF current.pratyantardasha = NoPeriod THEN NoPeriod
              ELSE [lord |-> current.pratyantardasha.lord,
                    start |-> current.pratyantardasha.start,
                    end |-> current.pratyantardasha.end,
                    mahadasha_lord |-> current.mahadasha.lord,
                    antardasha_lord |-> current.antardasha.lord]]

service_get_current_periods(nakshatra, birth_dt, target_date) ==
    Bind(get_current_periods(nakshatra, birth_dt, target_date),
         LAMBDA current : CurrentDashaResponse(current))

----------------------------------------------------------------------------
(* Inputs.                                                                 *)

\* Microseconds probed on either side of every period boundary.
TargetSpread ==
    1

\* Whole turns of the zodiac added to or taken from a classified longitude.
MaxTurns ==
    1

\* Moon longitudes: values of the tests (0, 45, 6.67 ~ 20/3), the two ends
\* of Rohini, a wrapped and a negative value, the last degree, and positions
\* whose elapsed fraction has denominator 7, 11 or 13.
MoonLongitudes ==
    { RInt(0), Rat(20, 3), RInt(45), RInt(40), Rat(160, 3), RInt(359),
      RInt(-10), RInt(400), Rat(920, 21), Rat(3640, 33), Rat(4240, 39) }

BirthInstants ==
    { DateTime(1990, 1, 1, 12, 0, 0), DateTime(1990, 5, 15, 10, 30, 0),
      DateTime(2000, 2, 29, 23, 59, 59) }

YearsAhead ==
    { 0, 1, 7, 50, 120 }

Around(t) ==
    { DtAdd(t, << 0, 0, k >>) : k \in (0 - TargetSpread)..TargetSpread }

\* The birth instant and every end of a major period of the timeline.
MajorTargetsOf(tl, birth_dt) ==
    UNION { Around(t) : t \in {birth_dt} \cup { tl[i].end : i \in DOMAIN tl } }

\* Besides, every end of a sub-period of the first two major periods and
\* every end of a sub-sub-period of the first and the last sub-period of
\* the birth period.  Each instant comes with its neighbours.
TargetsOf(tl, birth_dt) ==
    LET subEnds == UNION { { s.end : s \in Range(calculate_antardasha(m)) } :
                               m \in { tl[1], tl[Min(2, Len(tl))] } }
        subSubEnds == UNION { { p.end : p \in Range(calculate_pratyantardasha(s)) } :
                                  s \in { calculate_antardasha(tl[1])[j] : j \in {1, 9} } }
    IN  MajorTargetsOf(tl, birth_dt)
            \cup UNION { Around(t) : t \in subEnds \cup subSubEnds }

Targets(nakshatra, birth_dt) ==
    Bind(generate_mahadasha_timeline(nakshatra, birth_dt, 120),
         LAMBDA tl : TargetsOf(tl, birth_dt))

MajorTargets(nakshatra, birth_dt) ==
    Bind(generate_mahadasha_timeline(nakshatra, birth_dt, 120),
         LAMBDA tl : MajorTargetsOf(tl, birth_dt))

----------------------------------------------------------------------------
(* The calculator object and the call made on it.  The object is immutable *)
(* after construction and its methods are pure; the service layer builds a *)
(* fresh calculator for every request (_create_dasha_calculator) and makes *)
(* one call on it.  The state is the object's fields and that call with    *)
(* its argument and result.                                                *)

VARIABLES moon_longitude, birth_dt, nakshatra, positions, ascendant_rashi,
          is_day_birth, sun_longitude,
          op, arg, ret, prev

vars ==
    << moon_longitude, birth_dt, nakshatra, positions, ascendant_rashi,
       is_day_birth, sun_longitude, op, arg, ret, prev >>

NoCall ==
    [op |-> "none"]

\* VimshottariDasha.__init__
Init ==
    /\ moon_longitude \in MoonLongitudes
    /\ birth_dt \in BirthInstants
    /\ nakshatra = get_nakshatra(moon_longitude)
    /\ positions = "none"
    /\ ascendant_rashi = "none"
    /\ is_day_birth = "none"
    /\ sun_longitude = "none"
    /\ op = "none"
    /\ arg = << >>
    /\ ret = << >>
    /\ prev = NoCall

Object ==
    << moon_longitude, birth_dt, nakshatra, positions, ascendant_rashi,
       is_day_birth, sun_longitude, prev >>

CalculateDashaBalance ==
    /\ op = "none"
    /\ op' = "calculate_dasha_balance"
    /\ arg' = << >>
    /\ ret' = calculate_dasha_balance(nakshatra, birth_dt)
    /\ UNCHANGED Object

GenerateMahadashaTimeline ==
    /\ op = "none"
    /\ \E years_ahead \in YearsAhead :
        /\ op' = "generate_mahadasha_timeline"
        /\ arg' = years_ahead
        /\ ret' = generate_mahadasha_timeline(nakshatra, birth_dt, years_ahead)
    /\ UNCHANGED Object

\* calculate_antardasha on a period of the 120-year timeline
CalculateAntardasha ==
    /\ op = "none"
    /\ \E mahadasha \in Range(generate_mahadasha_timeline(nakshatra, birth_dt, 120)) :
        /\ op' = "calculate_antardasha"
        /\ arg' = mahadasha
        /\ ret' = calculate_antardasha(mahadasha)
    /\ UNCHANGED Object

\* calculate_pratyantardasha on a sub-period of a period of the timeline
CalculatePratyantardasha ==
    /\ op = "none"
    /\ \E mahadasha \in Range(generate_mahadasha_timeline(nakshatra, birth_dt, 120)) :
        \E antardasha \in Range(calculate_antardasha(mahadasha)) :
            /\ op' = "calculate_pratyantardasha"
            /\ arg' = antardasha
            /\ ret' = calculate_pratyantardasha(antardasha)
    /\ UNCHANGED Object

GetCurrentPeriods ==
    /\ op = "none"
    /\ \E target_date \in Targets(nakshatra, birth_dt) :
        /\ op' = "get_current_periods"
        /\ arg' = target_date
        /\ ret' = get_current_periods(nakshatra, birth_dt, target_date)
    /\ UNCHANGED Object

ServiceGetCurrentPeriods ==
    /\ op = "none"
    /\ \E target_date \in MajorTargets(nakshatra, birth_dt) :
        /\ op' = "ChartService.get_current_periods"
        /\ arg' = target_date
        /\ ret' = service_get_current_periods(nakshatra, birth_dt, target_date)
    /\ UNCHANGED Object

Next ==
    \/ CalculateDashaBalance
    \/ GenerateMahadashaTimeline
    \/ CalculateAntardasha
    \/ CalculatePratyantardasha
    \/ GetCurrentPeriods
    \/ ServiceGetCurrentPeriods

Spec ==
    Init /\ [][Next]_vars

----------------------------------------------------------------------------
(* The classifier functions called on their own: get_rashi and             *)
(* get_nakshatra are module-level pure functions.  A caller classifies one *)
(* longitude and then another; the state is the latest call and the call   *)
(* before it, and two calls are followed.                                  *)

\* x + y as a float sum: exact on the model's longitudes, except that an x
\* below half a unit in the last place of a non-zero y is absorbed by y
FloatPlus(x, y) ==
    IF y[1] # 0 /\ x[1] # 0 /\ RLt(<< Abs(x[1]), x[2] >>, HalfUlp360)
    THEN y
    ELSE RAdd(x, y)

\* Longitudes of the first turn: the values of the tests (0, 4, 14, 27, 45,
\* 359, -10; 29.999, 30, 15), sign and mansion and pada boundaries, and a
\* negative value smaller than the spacing of floats at 360.
BaseLongitudes ==
    { RInt(0), RInt(4), RInt(14), RInt(15), RInt(27), RInt(45), RInt(359),
      RInt(-10), Rat(29999, 1000), RInt(30), Rat(10, 3), Rat(40, 3),
      Rat(160, 3), RInt(120), Rat(-1, 131072) }

Longitudes ==
    { FloatPlus(b, RInt(360 * k)) :
          b \in BaseLongitudes, k \in (0 - MaxTurns)..MaxTurns }

InitClassify ==
    /\ moon_longitude = "none"
    /\ birth_dt = "none"
    /\ nakshatra = "none"
    /\ positions = "none"
    /\ ascendant_rashi = "none"
    /\ is_day_birth = "none"
    /\ sun_longitude = "none"
    /\ op = "none"
    /\ arg = << >>
    /\ ret = << >>
    /\ prev = NoCall

GetRashi ==
    \E sidereal_longitude \in Longitudes :
        /\ prev.op = "none"
        /\ op' = "get_rashi"
        /\ arg' = sidereal_longitude
        /\ ret' = get_rashi(sidereal_longitude)
        /\ prev' = [op |-> op, arg |-> arg, ret |-> ret]
        /\ UNCHANGED << moon_longitude, birth_dt, nakshatra, positions, ascendant_rashi,
                     is_day_birth, sun_longitude >>

GetNakshatra ==
    \E sidereal_longitude \in Longitudes :
        /\ prev.op = "none"
        /\ op' = "get_nakshatra"
        /\ arg' = sidereal_longitude
        /\ ret' = get_nakshatra(sidereal_longitude)
        /\ prev' = [op |-> op, arg |-> arg, ret |-> ret]
        /\ UNCHANGED << moon_longitude, birth_dt, nakshatra, positions, ascendant_rashi,
                     is_day_birth, sun_longitude >>

NextClassify ==
    \/ GetRashi
    \/ GetNakshatra

SpecClassify ==
    InitClassify /\ [][NextClassify]_vars

----------------------------------------------------------------------------
(* core/divisional.py: DivisionalCharts.  Every method is a pure function  *)
(* of one longitude.                                                       *)

DivisionalPosition(longitude, rashi, degree) ==
    [longitude |-> longitude, rashi |-> rashi, degree |-> degree]

\* rashi * 30 + degree
PositionAt(rashi, degree) ==
    DivisionalPosition(RAdd(RInt(rashi * 30), degree), rashi, degree)

FIRE_SIGNS ==
    {0, 4, 8}

EARTH_SIGNS ==
    {1, 5, 9}

AIR_SIGNS ==
    {2, 6, 10}

WATER_SIGNS ==
    {3, 7, 11}

DivisionalCharts_get_rashi(longitude) ==
    RTrunc(RDiv(PyFloatMod360(longitude), RInt(30)))

get_degree_in_rashi(longitude) ==
    PyFloatModPos(PyFloatMod360(longitude), RInt(30))

\* rashi % 2 == 0
IsOddSign(rashi) ==
    rashi % 2 = 0

calculate_d1(longitude) ==
    DivisionalPosition(longitude, DivisionalCharts_get_rashi(longitude),
                       get_degree_in_rashi(longitude))

calculate_hora(longitude) ==
    LET rashi == DivisionalCharts_get_rashi(longitude)
        degree == get_degree_in_rashi(longitude)
        hora_rashi == IF RLt(degree, RInt(15))
                      THEN (IF IsOddSign(rashi) THEN 4 ELSE 3)
                      ELSE (IF IsOddSign(rashi) THEN 3 ELSE 4)
        hora_degree == RMul(PyFloatModPos(degree, RInt(15)), RInt(2))
    IN  PositionAt(hora_rashi, hora_degree)

calculate_drekkana(longitude) ==
    LET rashi == DivisionalCharts_get_rashi(longitude)
        degree == get_degree_in_rashi(longitude)
        drekkana_rashi == IF RLt(degree, RInt(10)) THEN rashi
                          ELSE IF RLt(degree, RInt(20)) THEN (rashi + 4) % 12
                          ELSE (rashi + 8) % 12
        drekkana_degree == RMul(PyFloatModPos(degree, RInt(10)), RInt(3))
    IN  PositionAt(drekkana_rashi, drekkana_degree)

calculate_chaturthamsa(longitude) ==
    LET rashi == DivisionalCharts_get_rashi(longitude)
        degree == get_degree_in_rashi(longitude)
        division == RTrunc(RDiv(degree, Rat(15, 2)))
        start_rashi == IF IsOddSign(rashi) THEN rashi ELSE (rashi + 3) % 12
        d4_rashi == (start_rashi + division) % 12
        d4_degree == RMul(PyFloatModPos(degree, Rat(15, 2)), RInt(4))
    IN  PositionAt(d4_rashi, d4_degree)

calculate_saptamsa(longitude) ==
    LET rashi == DivisionalCharts_get_rashi(longitude)
        degree == get_degree_in_rashi(longitude)
        division_span == Rat(30, 7)
        division == RTrunc(RDiv(degree, division_span))
        start_rashi == IF IsOddSign(rashi) THEN rashi ELSE (rashi + 6) % 12
        d7_rashi == (start_rashi + division) % 12
        d7_degree == RMul(PyFloatModPos(degree, division_span),
                          RDiv(RInt(30), division_span))
    IN  PositionAt(d7_rashi, d7_degree)

\* degree % navamsa_span.  binary64 holds 30.0 / 9.0 above 10/3 (it is a
\* quarter of NAKSHATRA_SPAN, and so is its excess): a degree-in-sign that
\* is a whole number of navamsas and is held exactly, 10 or 20, leaves the
\* remainder just below the span.
PyFloatModNavamsa(degree) ==
    LET navamsa_span == Rat(30, 9)
        r == PyFloatModPos(degree, navamsa_span)
    IN  IF degree[2] = 1 /\ RLe(navamsa_span, degree) /\ r[1] = 0
        THEN RSub(navamsa_span, RDiv(SpanExcess, RInt(4)))
        ELSE r

calculate_navamsa(longitude) ==
    LET rashi == DivisionalCharts_get_rashi(longitude)
        degree == get_degree_in_rashi(longitude)
        navamsa_span == Rat(30, 9)
        division == RTrunc(RDiv(degree, navamsa_span))
        start_rashi == IF rashi \in FIRE_SIGNS THEN 0
                       ELSE IF rashi \in EARTH_SIGNS THEN 9
                       ELSE IF rashi \in AIR_SIGNS THEN 6
                       ELSE 3
        navamsa_rashi == (start_rashi + division) % 12
        navamsa_degree == RMul(PyFloatModNavamsa(degree), RInt(9))
    IN  PositionAt(navamsa_rashi, navamsa_degree)

calculate_dasamsa(longitude) ==
    LET rashi == DivisionalCharts_get_rashi(longitude)
        degree == get_degree_in_rashi(longitude)
        division == RTrunc(RDiv(degree, RInt(3)))
        start_rashi == IF IsOddSign(rashi) THEN rashi ELSE (rashi + 8) % 12
        d10_rashi == (start_rashi + division) % 12
        d10_degree == RMul(PyFloatModPos(degree, RInt(3)), RInt(10))
    IN  PositionAt(d10_rashi, d10_degree)

calculate_dwadasamsa(longitude) ==
    LET rashi == DivisionalCharts_get_rashi(longitude)
        degree == get_degree_in_rashi(longitude)
        division == RTrunc(RDiv(degree, Rat(5, 2)))
        d12_rashi == (rashi + division) % 12
        d12_degree == RMul(PyFloatModPos(degree, Rat(5, 2)), RInt(12))
    IN  PositionAt(d12_rashi, d12_degree)

\* the starting sign by modality: movable, fixed, dual
ModalityStart(rashi, movable, fixed, dual) ==
    IF rashi \in {0, 3, 6, 9} THEN movable
    ELSE IF rashi \in {1, 4, 7, 10} THEN fixed
    ELSE dual

calculate_shodasamsa(longitude) ==
    LET rashi == DivisionalCharts_get_rashi(longitude)
        degree == get_degree_in_rashi(longitude)
        division_span == Rat(30, 16)
        division == RTrunc(RDiv(degree, division_span))
        start_rashi == ModalityStart(rashi, 0, 4, 8)
        d16_rashi == (start_rashi + division) % 12
        d16_degree == RMul(PyFloatModPos(degree, division_span), RInt(16))
    IN  PositionAt(d16_rashi, d16_degree)

calculate_vimsamsa(longitude) ==
    LET rashi == DivisionalCharts_get_rashi(longitude)
        degree == get_degree_in_rashi(longitude)
        division == RTrunc(RDiv(degree, Rat(3, 2)))
        start_rashi == ModalityStart(rashi, 0, 8, 4)
        d20_rashi == (start_rashi + division) % 12
        d20_degree == RMul(PyFloatModPos(degree, Rat(3, 2)), RInt(20))
    IN  PositionAt(d20_rashi, d20_degree)

calculate_chaturvimsamsa(longitude) ==
    LET rashi == DivisionalCharts_get_rashi(longitude)
        degree == get_degree_in_rashi(longitude)
        division == RTrunc(RDiv(degree, Rat(5, 4)))
        start_rashi == IF IsOddSign(rashi) THEN 4 ELSE 3
        d24_rashi == (start_rashi + division) % 12
        d24_degree == RMul(PyFloatModPos(degree, Rat(5, 4)), RInt(24))
    IN  PositionAt(d24_rashi, d24_degree)

\* (end_deg, lord_sign) pairs of calculate_trimsamsa
TrimsamsaBounds(rashi) ==
    IF IsOddSign(rashi)
    THEN << << 5, 0 >>, << 10, 10 >>, << 18, 8 >>, << 25, 2 >>, << 30, 1 >> >>
    ELSE << << 5, 1 >>, << 12, 2 >>, << 20, 8 >>, << 25, 10 >>, << 30, 0 >> >>

\* for end_deg, sign in bounds: the first band with degree < end_deg, or
\* the initial d30_rashi = 0 when the loop finds none
TrimsamsaSign(bounds, degree) ==
    LET hits == { i \in DOMAIN bounds : RLt(degree, RInt(bounds[i][1])) }
    IN  IF hits = {} THEN 0
        ELSE bounds[CHOOSE i \in hits : \A j \in hits : i <= j][2]

calculate_trimsamsa(longitude) ==
    LET rashi == DivisionalCharts_get_rashi(longitude)
        degree == get_degree_in_rashi(longitude)
        d30_rashi == TrimsamsaSign(TrimsamsaBounds(rashi), degree)
    IN  PositionAt(d30_rashi, degree)

calculate_shashtiamsa(longitude) ==
    LET rashi == DivisionalCharts_get_rashi(longitude)
        degree == get_degree_in_rashi(longitude)
        division == RTrunc(RDiv(degree, Rat(1, 2)))
        d60_rashi == (rashi + division) % 12
        d60_degree == RMul(PyFloatModPos(degree, Rat(1, 2)), RInt(60))
    IN  PositionAt(d60_rashi, d60_degree)

DivisionCodes ==
    { "D1", "D2", "D3", "D4", "D7", "D9", "D10", "D12", "D16", "D20",
      "D24", "D30", "D60" }

\* the method that method_map gives a division code
CalcMethod(division, longitude) ==
    CASE division = "D1" -> calculate_d1(longitude)
      [] division = "D2" -> calculate_hora(longitude)
      [] division = "D3" -> calculate_drekkana(longitude)
      [] division = "D4" -> calculate_chaturthamsa(longitude)
      [] division = "D7" -> calculate_saptamsa(longitude)
      [] division = "D9" -> calculate_navamsa(longitude)
      [] division = "D10" -> calculate_dasamsa(longitude)
      [] division = "D12" -> calculate_dwadasamsa(longitude)
      [] division = "D16" -> calculate_shodasamsa(longitude)
      [] division = "D20" -> calculate_vimsamsa(longitude)
      [] division = "D24" -> calculate_chaturvimsamsa(longitude)
      [] division = "D30" -> calculate_trimsamsa(longitude)
      [] division = "D60" -> calculate_shashtiamsa(longitude)

get_all_divisional_positions(longitude) ==
    [division \in DivisionCodes |-> CalcMethod(division, longitude)]

is_vargottama(longitude) ==
    calculate_d1(longitude).rashi = calculate_navamsa(longitude).rashi

----------------------------------------------------------------------------
(* core/ephemeris.py: calculate_navamsa, the navamsa sign counted along    *)
(* the whole zodiac.  It divides the longitude itself, a quotient up to    *)
(* 108, where DivisionalCharts divides the degree within the sign, a       *)
(* quotient below 9.  binary64 rounds a quotient to the nearest value it   *)
(* holds, and the spacing of those values doubles at each power of two;    *)
(* the model keeps the mechanism with a spacing its rationals can hold.    *)

\* half the spacing of the floats of [1, 2)
UnitRoundoff ==
    << 1, 4096 >>

\* half the spacing of the floats just below the whole number n >= 1
HalfUlpBelow(n) ==
    IF n = 1
    THEN RDiv(UnitRoundoff, RInt(2))
    ELSE LET p == CHOOSE b \in {1, 2, 4, 8, 16, 32, 64, 128, 256} :
                      b < n /\ n <= 2 * b
         IN  RMul(RInt(p), UnitRoundoff)

\* the spacing of the floats around x >= 1
UlpAt(x) ==
    LET p == CHOOSE b \in {1, 2, 4, 8, 16, 32, 64, 128, 256} :
                 RLe(RInt(b), x) /\ RLt(x, RInt(2 * b))
    IN  RMul(RInt(2 * p), UnitRoundoff)

\* 360 / 108 as held: a third of a unit in the last place above 10/3
StoredNavamsaSpan ==
    RAdd(Rat(10, 3), RDiv(UlpAt(Rat(10, 3)), RInt(3)))

\* int(x / y), x >= 0 and y > 0: a quotient within half a spacing below a
\* whole number is rounded to it
FloatQuotientInt(x, y) ==
    LET q == RDiv(x, y)
        n == RFloor(q) + 1
    IN  IF RLe(RSub(RInt(n), q), HalfUlpBelow(n)) THEN n ELSE RFloor(q)

ephemeris_calculate_navamsa(sidereal_longitude) ==
    LET navamsa_span == StoredNavamsaSpan
        navamsa_number == IF sidereal_longitude[1] >= 0
                          THEN FloatQuotientInt(sidereal_longitude, navamsa_span)
                          ELSE RTrunc(RDiv(sidereal_longitude, navamsa_span))
    IN  navamsa_number % 12

----------------------------------------------------------------------------
(* services/advanced_service.py and api/advanced_routes.py: the divisional *)
(* chart of a birth.  The positions of the bodies come from the ephemeris, *)
(* which returns longitudes reduced mod 360; here they are an input.       *)

\* round(x, 2): to the nearest hundredth, a tie to the even one
Round2(x) ==
    LET n == x[1] * 100
        q == n \div x[2]
        rem == n % x[2]
        up == IF 2 * rem > x[2] \/ (2 * rem = x[2] /\ q % 2 = 1) THEN 1 ELSE 0
    IN  Rat(q + up, 100)

chart_names ==
    [division \in DivisionCodes |->
        CASE division = "D1" -> << "Rashi", "Physical body, overall life" >>
          [] division = "D2" -> << "Hora", "Wealth, financial prosperity" >>
          [] division = "D3" -> << "Drekkana", "Siblings, courage, initiatives" >>
          [] division = "D4" -> << "Chaturthamsa", "Fortune, property" >>
          [] division = "D7" -> << "Saptamsa", "Children, progeny" >>
          [] division = "D9" -> << "Navamsa", "Spouse, dharma, spiritual life" >>
          [] division = "D10" -> << "Dasamsa", "Career, profession" >>
          [] division = "D12" -> << "Dwadasamsa", "Parents, ancestry" >>
          [] division = "D16" -> << "Shodasamsa", "Vehicles, comforts" >>
          [] division = "D20" -> << "Vimsamsa", "Spiritual progress" >>
          [] division = "D24" -> << "Chaturvimsamsa", "Education, learning" >>
          [] division = "D30" -> << "Trimsamsa", "Evils, misfortunes" >>
          [] division = "D60" -> << "Shashtiamsa", "Past life karma" >>]

\* the planets_div entry of one body; RASHIS[div_pos.rashi] raises
\* IndexError for a sign outside the list
PlanetDiv(div_pos) ==
    IF div_pos.rashi \in 0..11
    THEN [raised |-> "none",
          rashi |-> div_pos.rashi,
          rashi_name |-> RASHIS[div_pos.rashi + 1],
          degree |-> Round2(div_pos.degree)]
    ELSE [raised |-> "IndexError"]

\* planets_div.get('ASCENDANT')
AscendantOf(planets_div) ==
    IF "ASCENDANT" \in DOMAIN planets_div
    THEN planets_div["ASCENDANT"]
    ELSE "None"

\* the planets_div dict built, or the exception that building it raises
ChartOf(division, planets_div) ==
    IF \E planet_name \in DOMAIN planets_div :
           planets_div[planet_name].raised # "none"
    THEN [raised |-> "IndexError"]
    ELSE [raised |-> "none",
          division |-> division,
          name |-> chart_names[division][1],
          description |-> chart_names[division][2],
          planets |-> planets_div,
          ascendant |-> AscendantOf(planets_div)]

\* (a variant that falls back to the birth chart for an unknown code)
get_divisional_chart_DefaultD1(planet_positions, division) ==
    LET known == IF division \in DivisionCodes THEN division ELSE "D1"
    IN  ChartOf(known, [planet_name \in DOMAIN planet_positions |->
                           PlanetDiv(CalcMethod(known, planet_positions[planet_name]))])

get_divisional_chart(planet_positions, division) ==
    IF division \notin DivisionCodes
    THEN [raised |-> "ValueError", message |-> "Unknown division"]
    ELSE Bind([planet_name \in DOMAIN planet_positions |->
                  Bind(planet_positions[planet_name], LAMBDA longitude :
                      Bind(CalcMethod(division, longitude), LAMBDA div_pos :
                          PlanetDiv(div_pos)))],
              LAMBDA planets_div : ChartOf(division, planets_div))

\* The route handler: the service's result, a ValueError as HTTP 400, any
\* other exception as HTTP 500.
RouteResponse(result) ==
    IF result.raised = "none" THEN [status |-> 200, body |-> result]
    ELSE IF result.raised = "ValueError"
    THEN [status |-> 400, detail |-> result.message]
    ELSE [status |-> 500, detail |-> result.raised]

route_get_divisional_chart(planet_positions, division) ==
    Bind(get_divisional_chart(planet_positions, division), LAMBDA result :
        RouteResponse(result))

----------------------------------------------------------------------------
(* The divisional chart engine called on its own: one call of              *)
(* get_all_divisional_positions, of the service or of the route handler.   *)

\* Degrees within a sign: the boundaries of the 13 divisions and of the
\* trimsamsa bands, and points inside them.
DegreesInSign ==
    { RInt(0), Rat(1, 2), Rat(5, 4), Rat(15, 8), Rat(5, 2), RInt(3),
      Rat(10, 3), Rat(30, 7), RInt(5), Rat(15, 2), RInt(10), RInt(12),
      RInt(15), RInt(18), RInt(20), RInt(25), Rat(59, 2) }

\* Longitudes in each of the 12 signs, and longitudes that are not reduced
\* mod 360: negative, 360 and above, and a negative one below the spacing
\* of floats at 360.
DivisionalLongitudes ==
    { RAdd(RInt(30 * s), d) : s \in 0..11, d \in DegreesInSign }
        \cup { RInt(-10), RInt(360), RInt(400), Rat(-1, 131072) }

\* The navamsa boundaries k * 10/3 that binary64 holds a third of a unit in
\* the last place below their value.
BoundariesHeldBelow ==
    { 7, 11, 14, 17, 22, 25, 28, 31, 34, 37, 41, 44, 47, 50, 53, 56, 59, 62,
      65, 68, 71, 74, 79, 82, 85, 88, 91, 94, 97, 100, 103, 106 }

HeldBelow(k) ==
    RSub(Rat(10 * k, 3), RDiv(UlpAt(Rat(10 * k, 3)), RInt(3)))

\* Longitudes of [0, 360): those of the divisional engine and the floats
\* nearest to the navamsa boundaries they fall short of.
NavamsaLongitudes ==
    { longitude \in DivisionalLongitudes :
        longitude[1] >= 0 /\ RLt(longitude, RInt(360)) }
        \cup { HeldBelow(k) : k \in BoundariesHeldBelow }

Bodies ==
    << "SUN", "MOON", "MARS", "MERCURY", "JUPITER", "VENUS", "SATURN",
       "RAHU", "KETU", "ASCENDANT" >>

\* Charts as the ephemeris returns them: every body at a longitude in
\* [0, 360), here 37 degrees apart from the first.
ChartAt(base) ==
    [planet_name \in Range(Bodies) |->
        PyFloatModPos(
            RAdd(base, RInt(37 * (CHOOSE i \in DOMAIN Bodies : Bodies[i] = planet_name))),
            RInt(360))]

ChartBases ==
    { RInt(0), Rat(5, 2), Rat(10, 3), RInt(10), Rat(95, 4), Rat(30, 7),
      RInt(299), Rat(645, 2) }

\* Division codes that a request may carry: the 13 supported ones and some
\* that are not.
RequestedDivisions ==
    DivisionCodes \cup { "D5", "D8", "D61", "d9", "" }

InitDivisional ==
    /\ moon_longitude = "none"
    /\ birth_dt = "none"
    /\ nakshatra = "none"
    /\ positions = "none"
    /\ ascendant_rashi = "none"
    /\ is_day_birth = "none"
    /\ sun_longitude = "none"
    /\ op = "none"
    /\ arg = << >>
    /\ ret = << >>
    /\ prev = NoCall

GetAllDivisionalPositions ==
    /\ op = "none"
    /\ \E longitude \in DivisionalLongitudes :
        /\ op' = "get_all_divisional_positions"
        /\ arg' = longitude
        /\ ret' = get_all_divisional_positions(longitude)
    /\ UNCHANGED Object

EphemerisCalculateNavamsa ==
    /\ op = "none"
    /\ \E sidereal_longitude \in NavamsaLongitudes :
        /\ op' = "ephemeris.calculate_navamsa"
        /\ arg' = sidereal_longitude
        /\ ret' = ephemeris_calculate_navamsa(sidereal_longitude)
    /\ UNCHANGED Object

IsVargottama ==
    /\ op = "none"
    /\ \E longitude \in DivisionalLongitudes :
        /\ op' = "is_vargottama"
        /\ arg' = longitude
        /\ ret' = is_vargottama(longitude)
    /\ UNCHANGED Object

ServiceGetDivisionalChart ==
    /\ op = "none"
    /\ \E base \in ChartBases, division \in RequestedDivisions :
        /\ op' = "AdvancedChartService.get_divisional_chart"
        /\ arg' = [positions |-> ChartAt(base), division |-> division]
        /\ ret' = Bind(ChartAt(base), LAMBDA planet_positions :
                      get_divisional_chart(planet_positions, division))
    /\ UNCHANGED Object

RouteGetDivisionalChart ==
    /\ op = "none"
    /\ \E base \in ChartBases, division \in RequestedDivisions :
        /\ op' = "advanced_routes.get_divisional_chart"
        /\ arg' = [positions |-> ChartAt(base), division |-> division]
        /\ ret' = Bind(ChartAt(base), LAMBDA planet_positions :
                      route_get_divisional_chart(planet_positions, division))
    /\ UNCHANGED Object

NextDivisional ==
    \/ GetAllDivisionalPositions
    \/ IsVargottama
    \/ EphemerisCalculateNavamsa
    \/ ServiceGetDivisionalChart
    \/ RouteGetDivisionalChart

SpecDivisional ==
    InitDivisional /\ [][NextDivisional]_vars

----------------------------------------------------------------------------
(* core/ashtakavarga.py: the Ashtakavarga calculator.  Its fields are the  *)
(* positions dict (body name -> sign) and the ascendant's sign; its        *)
(* methods do not change them.                                             *)

ASHTAKAVARGA_TABLES ==
    [SUN |->
       [SUN |-> << 1, 2, 4, 7, 8, 9, 10, 11 >>,
        MOON |-> << 3, 6, 10, 11 >>,
        MARS |-> << 1, 2, 4, 7, 8, 9, 10, 11 >>,
        MERCURY |-> << 3, 5, 6, 9, 10, 11, 12 >>,
        JUPITER |-> << 5, 6, 9, 11 >>,
        VENUS |-> << 6, 7, 12 >>,
        SATURN |-> << 1, 2, 4, 7, 8, 9, 10, 11 >>,
        ASCENDANT |-> << 3, 4, 6, 10, 11, 12 >>],
     MOON |->
       [SUN |-> << 3, 6, 7, 8, 10, 11 >>,
        MOON |-> << 1, 3, 6, 7, 10, 11 >>,
        MARS |-> << 2, 3, 5, 6, 9, 10, 11 >>,
        MERCURY |-> << 1, 3, 4, 5, 7, 8, 10, 11 >>,
        JUPITER |-> << 1, 4, 7, 8, 10, 11, 12 >>,
        VENUS |-> << 3, 4, 5, 7, 9, 10, 11 >>,
        SATURN |-> << 3, 5, 6, 11 >>,
        ASCENDANT |-> << 3, 6, 10, 11 >>],
     MARS |->
       [SUN |-> << 3, 5, 6, 10, 11 >>,
        MOON |-> << 3, 6, 11 >>,
        MARS |-> << 1, 2, 4, 7, 8, 10, 11 >>,
        MERCURY |-> << 3, 5, 6, 11 >>,
        JUPITER |-> << 6, 10, 11, 12 >>,
        VENUS |-> << 6, 8, 11, 12 >>,
        SATURN |-> << 1, 4, 7, 8, 9, 10, 11 >>,
        ASCENDANT |-> << 1, 3, 6, 10, 11 >>],
     MERCURY |->
       [SUN |-> << 5, 6, 9, 11, 12 >>,
        MOON |-> << 2, 4, 6, 8, 10, 11 >>,
        MARS |-> << 1, 2, 4, 7, 8, 9, 10, 11 >>,
        MERCURY |-> << 1, 3, 5, 6, 9, 10, 11, 12 >>,
        JUPITER |-> << 6, 8, 11, 12 >>,
        VENUS |-> << 1, 2, 3, 4, 5, 8, 9, 11 >>,
        SATURN |-> << 1, 2, 4, 7, 8, 9, 10, 11 >>,
        ASCENDANT |-> << 1, 2, 4, 6, 8, 10, 11 >>],
     JUPITER |->
       [SUN |-> << 1, 2, 3, 4, 7, 8, 9, 10, 11 >>,
        MOON |-> << 2, 5, 7, 9, 11 >>,
        MARS |-> << 1, 2, 4, 7, 8, 10, 11 >>,
        MERCURY |-> << 1, 2, 4, 5, 6, 9, 10, 11 >>,
        JUPITER |-> << 1, 2, 3, 4, 7, 8, 10, 11 >>,
        VENUS |-> << 2, 5, 6, 9, 10, 11 >>,
        SATURN |-> << 3, 5, 6, 12 >>,
        ASCENDANT |-> << 1, 2, 4, 5, 6, 7, 9, 10, 11 >>],
     VENUS |->
       [SUN |-> << 8, 11, 12 >>,
        MOON |-> << 1, 2, 3, 4, 5, 8, 9, 11, 12 >>,
        MARS |-> << 3, 5, 6, 9, 11, 12 >>,
        MERCURY |-> << 3, 5, 6, 9, 11 >>,
        JUPITER |-> << 5, 8, 9, 10, 11 >>,
        VENUS |-> << 1, 2, 3, 4, 5, 8, 9, 10, 11 >>,
        SATURN |-> << 3, 4, 5, 8, 9, 10, 11 >>,
        ASCENDANT |-> << 1, 2, 3, 4, 5, 8, 9, 11 >>],
     SATURN |->
       [SUN |-> << 1, 2, 4, 7, 8, 10, 11 >>,
        MOON |-> << 3, 6, 11 >>,
        MARS |-> << 3, 5, 6, 10, 11, 12 >>,
        MERCURY |-> << 6, 8, 9, 10, 11, 12 >>,
        JUPITER |-> << 5, 6, 11, 12 >>,
        VENUS |-> << 6, 11, 12 >>,
        SATURN |-> << 3, 5, 6, 11 >>,
        ASCENDANT |-> << 1, 3, 4, 6, 10, 11 >>]]

\* positions.get(source, 0)
PositionOf(placement, source) ==
    IF source \in DOMAIN placement THEN placement[source] ELSE 0

\* the sign a source stands in
SourceRashi(placement, ascendant, source) ==
    IF source = "ASCENDANT" THEN ascendant ELSE PositionOf(placement, source)

RECURSIVE SumOver(_, _)
\* sum(...) of the entries of f at the indices in S
SumOver(f, S) ==
    IF S = {} THEN 0
    ELSE LET x == CHOOSE y \in S : TRUE
         IN  f[x] + SumOver(f, S \ {x})

\* [0] * 12
ZeroBindus ==
    (0 :> 0) @@ [i \in 1..11 |-> 0]

RECURSIVE AddHouses_Double(_, _, _, _)
\* (a variant of the inner loop that adds 2 per benefic house)
AddHouses_Double(bindus, source_rashi, benefic_houses, k) ==
    IF k > Len(benefic_houses) THEN bindus
    ELSE Bind([bindus EXCEPT ![(source_rashi + benefic_houses[k] - 1) % 12] = @ + 2],
              LAMBDA updated :
                  AddHouses_Double(updated, source_rashi, benefic_houses, k + 1))

RECURSIVE AddHouses(_, _, _, _)
\* the inner loop "for house in benefic_houses", from the k-th house on
AddHouses(bindus, source_rashi, benefic_houses, k) ==
    IF k > Len(benefic_houses) THEN bindus
    ELSE Bind([bindus EXCEPT ![(source_rashi + benefic_houses[k] - 1) % 12] = @ + 1],
              LAMBDA updated :
                  AddHouses(updated, source_rashi, benefic_houses, k + 1))

RECURSIVE AddSources(_, _, _, _, _)
\* the outer loop "for source, benefic_houses in planet_table.items()",
\* over the sources not yet visited
AddSources(bindus, planet_table, sources, placement, ascendant) ==
    IF sources = {} THEN bindus
    ELSE Bind(CHOOSE x \in sources : TRUE, LAMBDA source :
             Bind(SourceRashi(placement, ascendant, source), LAMBDA source_rashi :
                 Bind(AddHouses(bindus, source_rashi, planet_table[source], 1),
                      LAMBDA updated :
                          AddSources(updated, planet_table, sources \ {source},
                                     placement, ascendant))))

BhinnashtakavargaResult(planet, bindus) ==
    [planet |-> planet, bindus |-> bindus, total_bindus |-> SumOver(bindus, 0..11)]

calculate_bhinnashtaka(placement, ascendant, planet) ==
    IF planet \notin DOMAIN ASHTAKAVARGA_TABLES
    THEN [planet |-> planet, bindus |-> ZeroBindus, total_bindus |-> 0]
    ELSE Bind(AddSources(ZeroBindus, ASHTAKAVARGA_TABLES[planet],
                         DOMAIN ASHTAKAVARGA_TABLES[planet], placement, ascendant),
              LAMBDA bindus : BhinnashtakavargaResult(planet, bindus))

SarvaPlanets ==
    << "SUN", "MOON", "MARS", "MERCURY", "JUPITER", "VENUS", "SATURN" >>

RECURSIVE AddBindus(_, _, _)
\* the loop "for i, bindu in enumerate(bhinna.bindus)", from index i on
AddBindus(sarva_bindus, bindus, i) ==
    IF i > 11 THEN sarva_bindus
    ELSE Bind([sarva_bindus EXCEPT ![i] = @ + bindus[i]],
              LAMBDA updated : AddBindus(updated, bindus, i + 1))

RECURSIVE SarvaLoop(_, _, _, _, _, _)
\* the loop "for planet in planets", from the k-th planet on
SarvaLoop(bhinnas, sarva_bindus, planets, k, placement, ascendant) ==
    IF k > Len(planets)
    THEN [bindus |-> sarva_bindus,
          total_bindus |-> SumOver(sarva_bindus, 0..11),
          bhinnas |-> bhinnas]
    ELSE Bind(calculate_bhinnashtaka(placement, ascendant, planets[k]),
              LAMBDA bhinna :
                  Bind((planets[k] :> bhinna) @@ bhinnas, LAMBDA more_bhinnas :
                      Bind(AddBindus(sarva_bindus, bhinna.bindus, 0),
                           LAMBDA updated :
                               SarvaLoop(more_bhinnas, updated, planets, k + 1,
                                         placement, ascendant))))

\* (a variant that leaves SATURN out of the sum)
calculate_sarvashtaka_SixPlanets(placement, ascendant) ==
    SarvaLoop(<< >>, ZeroBindus, SubSeq(SarvaPlanets, 1, 6), 1, placement, ascendant)

calculate_sarvashtaka(placement, ascendant) ==
    SarvaLoop(<< >>, ZeroBindus, SarvaPlanets, 1, placement, ascendant)

PrastaraSources ==
    << "SUN", "MOON", "MARS", "MERCURY", "JUPITER", "VENUS", "SATURN", "ASCENDANT" >>

\* one row of the matrix: 1 at each sign a benefic house of the source
\* falls on, planet_table.get(source, []) being the houses
PrastaraRow(planet_table, source, placement, ascendant) ==
    LET source_rashi == SourceRashi(placement, ascendant, source)
        benefic_houses == IF source \in DOMAIN planet_table
                          THEN planet_table[source] ELSE << >>
    IN  [target_rashi \in 0..11 |->
            IF \E k \in DOMAIN benefic_houses :
                   (source_rashi + benefic_houses[k] - 1) % 12 = target_rashi
            THEN 1 ELSE 0]

\* (a variant that leaves the row of the ASCENDANT empty)
calculate_prastara_NoAscendantRow(placement, ascendant, planet) ==
    IF planet \notin DOMAIN ASHTAKAVARGA_TABLES
    THEN [row \in 1..8 |-> ZeroBindus]
    ELSE [row \in 1..8 |->
             IF PrastaraSources[row] = "ASCENDANT" THEN ZeroBindus
             ELSE PrastaraRow(ASHTAKAVARGA_TABLES[planet], PrastaraSources[row],
                              placement, ascendant)]

calculate_prastara(placement, ascendant, planet) ==
    IF planet \notin DOMAIN ASHTAKAVARGA_TABLES
    THEN [row \in 1..8 |-> ZeroBindus]
    ELSE [row \in 1..8 |->
             PrastaraRow(ASHTAKAVARGA_TABLES[planet], PrastaraSources[row],
                         placement, ascendant)]

RECURSIVE TrikonaLoop(_, _)
\* for start in range(4): subtract the triad's minimum from its three houses
TrikonaLoop(reduced, start) ==
    IF start > 3
    THEN reduced
    ELSE LET houses == << start, (start + 4) % 12, (start + 8) % 12 >>
             min_val == Min(Min(reduced[houses[1]], reduced[houses[2]]),
                            reduced[houses[3]])
         IN  Bind([h \in 0..11 |-> IF h \in Range(houses)
                                   THEN reduced[h] - min_val
                                   ELSE reduced[h]],
                  LAMBDA updated : TrikonaLoop(updated, start + 1))

\* (a variant that reduces the caller's list in place instead of a copy)
trikona_reduction_InPlace(bindus) ==
    Bind(TrikonaLoop(bindus, 0),
         LAMBDA reduced : [reduced |-> reduced, bindus |-> reduced])

\* The result, with the caller's list as it is after the call: the loop
\* works on bindus.copy(), so the list passed in keeps its entries.
trikona_reduction(bindus) ==
    Bind(TrikonaLoop(bindus, 0),
         LAMBDA reduced : [reduced |-> reduced, bindus |-> bindus])

BhinnaQuality(bindu_count) ==
    IF bindu_count >= 5 THEN "excellent"
    ELSE IF bindu_count = 4 THEN "good"
    ELSE IF bindu_count = 3 THEN "neutral"
    ELSE "difficult"

SarvaQuality(sarva_bindus) ==
    IF sarva_bindus >= 30 THEN "excellent"
    ELSE IF sarva_bindus >= 25 THEN "good"
    ELSE IF sarva_bindus >= 20 THEN "neutral"
    ELSE "challenging"

get_recommendation(bhinna_quality, sarva_quality) ==
    IF bhinna_quality \in {"excellent", "good"} /\ sarva_quality \in {"excellent", "good"}
    THEN "Highly favorable period for activities related to this planet"
    ELSE IF bhinna_quality \in {"excellent", "good"}
    THEN "Favorable for planet-specific matters, general caution advised"
    ELSE IF sarva_quality \in {"excellent", "good"}
    THEN "Generally positive environment, some planet-specific challenges"
    ELSE IF bhinna_quality = "neutral" /\ sarva_quality = "neutral"
    THEN "Mixed results expected, proceed with awareness"
    ELSE "Challenging period, patience and remedial measures recommended"

TransitAnalysis(transit_planet, transit_rashi, bindu_count, sarva_bindus) ==
    [planet |-> transit_planet,
     transit_sign |-> transit_rashi,
     bhinna_bindus |-> bindu_count,
     bhinna_quality |-> BhinnaQuality(bindu_count),
     sarva_bindus |-> sarva_bindus,
     sarva_quality |-> SarvaQuality(sarva_bindus),
     recommendation |-> get_recommendation(BhinnaQuality(bindu_count),
                                           SarvaQuality(sarva_bindus))]

analyze_transit(placement, ascendant, transit_planet, transit_rashi) ==
    Bind(calculate_bhinnashtaka(placement, ascendant, transit_planet).bindus[transit_rashi],
         LAMBDA bindu_count :
             Bind(calculate_sarvashtaka(placement, ascendant).bindus[transit_rashi],
                  LAMBDA sarva_bindus :
                      TransitAnalysis(transit_planet, transit_rashi,
                                      bindu_count, sarva_bindus)))

----------------------------------------------------------------------------
(* The Ashtakavarga calculator and the call made on it.                    *)

\* Placements of the 9 bodies and the ascendant entry, as the service
\* builds them from the ephemeris: body number i in sign (step * i + first)
\* mod 12.
PlacementAt(step, first) ==
    [planet_name \in Range(Bodies) |->
        (step * (CHOOSE i \in DOMAIN Bodies : Bodies[i] = planet_name) + first) % 12]

\* A positions dict restricted to some of its keys.
Only(placement, names) ==
    [planet_name \in names |-> placement[planet_name]]

\* Complete placements, and dicts that lack the MOON or hold the SUN alone.
Placements ==
    { PlacementAt(step, first) : step \in {0, 1, 5, 7, 11}, first \in {0, 3, 7} }
        \cup { Only(PlacementAt(5, 3), Range(Bodies) \ {"MOON"}),
               Only(PlacementAt(7, 7), {"SUN"}) }

AscendantRashis ==
    { 3, 11 }

\* Names that a caller may pass for a body: the 7 classical bodies, the
\* two nodes, and a misspelling.
PlanetNames ==
    Range(SarvaPlanets) \cup { "RAHU", "KETU", "SUNN" }

InitAshtakavarga ==
    /\ moon_longitude = "none"
    /\ birth_dt = "none"
    /\ nakshatra = "none"
    /\ positions \in Placements
    /\ ascendant_rashi \in AscendantRashis
    /\ is_day_birth = "none"
    /\ sun_longitude = "none"
    /\ op = "none"
    /\ arg = << >>
    /\ ret = << >>
    /\ prev = NoCall

CalculateBhinnashtaka ==
    /\ op = "none"
    /\ \E planet \in PlanetNames :
        /\ op' = "calculate_bhinnashtaka"
        /\ arg' = planet
        /\ ret' = calculate_bhinnashtaka(positions, ascendant_rashi, planet)
    /\ UNCHANGED Object

CalculateSarvashtaka ==
    /\ op = "none"
    /\ op' = "calculate_sarvashtaka"
    /\ arg' = << >>
    /\ ret' = calculate_sarvashtaka(positions, ascendant_rashi)
    /\ UNCHANGED Object

AnalyzeTransit ==
    /\ op = "none"
    /\ \E transit_planet \in PlanetNames, transit_rashi \in 0..11 :
        /\ op' = "analyze_transit"
        /\ arg' = [transit_planet |-> transit_planet, transit_rashi |-> transit_rashi]
        /\ ret' = analyze_transit(positions, ascendant_rashi,
                                  transit_planet, transit_rashi)
    /\ UNCHANGED Object

\* 12-entry profiles of non-negative integers
Profiles ==
    { [h \in 0..11 |-> (a * h * h + c * h + e) % m] :
        a \in 0..2, c \in 0..3, e \in 0..2, m \in {1, 5, 9} }

CalculatePrastara ==
    /\ op = "none"
    /\ \E planet \in PlanetNames :
        /\ op' = "calculate_prastara"
        /\ arg' = planet
        /\ ret' = calculate_prastara(positions, ascendant_rashi, planet)
    /\ UNCHANGED Object

TrikonaReduction ==
    /\ op = "none"
    /\ \E bindus \in Profiles
                     \cup { calculate_sarvashtaka(positions, ascendant_rashi).bindus } :
        /\ op' = "trikona_reduction"
        /\ arg' = bindus
        /\ ret' = trikona_reduction(bindus)
    /\ UNCHANGED Object

NextAshtakavarga ==
    \/ CalculateBhinnashtaka
    \/ CalculateSarvashtaka
    \/ AnalyzeTransit
    \/ TrikonaReduction
    \/ CalculatePrastara

SpecAshtakavarga ==
    InitAshtakavarga /\ [][NextAshtakavarga]_vars

----------------------------------------------------------------------------
(* core/shadbala.py: the six-fold strength calculator.  Strengths are      *)
(* floats; the inputs below give values whose hundredths are never a tie,  *)
(* so round(x, 2) is the nearest hundredth.                                *)

EXALTATION_DEGREES ==
    [SUN |-> 10, MOON |-> 33, MARS |-> 298, MERCURY |-> 165,
     JUPITER |-> 95, VENUS |-> 357, SATURN |-> 200]

DEBILITATION_DEGREES ==
    [k \in DOMAIN EXALTATION_DEGREES |-> (EXALTATION_DEGREES[k] + 180) % 360]

OWN_SIGNS ==
    [SUN |-> {4}, MOON |-> {3}, MARS |-> {0, 7}, MERCURY |-> {2, 5},
     JUPITER |-> {8, 11}, VENUS |-> {1, 6}, SATURN |-> {9, 10}]

\* in Virupas
NATURAL_STRENGTH ==
    [SUN |-> Rat(60, 1), MOON |-> Rat(5143, 100), VENUS |-> Rat(4285, 100),
     JUPITER |-> Rat(3428, 100), MERCURY |-> Rat(2571, 100),
     MARS |-> Rat(1714, 100), SATURN |-> Rat(857, 100)]

\* in Rupas
MINIMUM_SHADBALA ==
    [SUN |-> Rat(13, 2), MOON |-> Rat(6, 1), MARS |-> Rat(5, 1),
     MERCURY |-> Rat(7, 1), JUPITER |-> Rat(13, 2), VENUS |-> Rat(11, 2),
     SATURN |-> Rat(5, 1)]

DIG_BALA_POSITIONS ==
    [SUN |-> 10, MARS |-> 10, JUPITER |-> 1, MERCURY |-> 1, MOON |-> 4,
     VENUS |-> 4, SATURN |-> 7]

get_house(ascendant, planet_rashi) ==
    ((planet_rashi - ascendant) % 12) + 1

\* abs(x) of a float
RAbs(x) ==
    << Abs(x[1]), x[2] >>

calculate_uccha_bala(planet, longitude) ==
    IF planet \notin DOMAIN EXALTATION_DEGREES THEN RInt(0)
    ELSE LET apart == RAbs(RSub(longitude, RInt(DEBILITATION_DEGREES[planet])))
             distance == IF RLt(RInt(180), apart) THEN RSub(RInt(360), apart)
                         ELSE apart
         IN  RMul(RDiv(distance, RInt(180)), RInt(60))

get_dignity(planet, rashi) ==
    IF planet \notin DOMAIN OWN_SIGNS THEN "neutral"
    ELSE IF planet \in DOMAIN EXALTATION_DEGREES
            /\ rashi = EXALTATION_DEGREES[planet] \div 30
    THEN "exalted"
    ELSE IF planet \in DOMAIN EXALTATION_DEGREES
            /\ rashi = DEBILITATION_DEGREES[planet] \div 30
    THEN "debilitated"
    ELSE IF rashi \in OWN_SIGNS[planet] THEN "own"
    ELSE "neutral"

\* points of a dignity
DignityPoints(dignity) ==
    CASE dignity = "exalted" -> Rat(30, 1)
      [] dignity = "moolatrikona" -> Rat(45, 2)
      [] dignity = "own" -> Rat(20, 1)
      [] dignity = "friend" -> Rat(15, 1)
      [] dignity = "neutral" -> Rat(10, 1)
      [] dignity = "enemy" -> Rat(15, 4)
      [] OTHER -> Rat(0, 1)

VARGA_CHARTS ==
    << "D1", "D2", "D3", "D7", "D9", "D12", "D30" >>

RECURSIVE SaptavargaLoop(_, _, _, _)
\* the loop "for varga in VARGA_CHARTS", from the k-th chart on
SaptavargaLoop(total, planet, varga_positions, k) ==
    IF k > Len(VARGA_CHARTS) THEN total
    ELSE IF VARGA_CHARTS[k] \notin DOMAIN varga_positions
    THEN SaptavargaLoop(total, planet, varga_positions, k + 1)
    ELSE Bind(RAdd(total,
                   DignityPoints(get_dignity(planet,
                                 varga_positions[VARGA_CHARTS[k]].rashi))),
              LAMBDA more : SaptavargaLoop(more, planet, varga_positions, k + 1))

calculate_saptavargaja_bala(planet, varga_positions) ==
    RDiv(SaptavargaLoop(RInt(0), planet, varga_positions, 1), RInt(7))

calculate_ojhayugma_bala(planet, rashi) ==
    LET is_odd_sign == rashi % 2 = 0
    IN  IF planet \in {"MOON", "VENUS"}
        THEN (IF ~is_odd_sign THEN RInt(15) ELSE RInt(0))
        ELSE (IF is_odd_sign THEN RInt(15) ELSE RInt(0))

calculate_kendradi_bala(ascendant, planet, rashi) ==
    LET house == get_house(ascendant, rashi)
    IN  IF house \in {1, 4, 7, 10} THEN RInt(60)
        ELSE IF house \in {2, 5, 8, 11} THEN RInt(30)
        ELSE RInt(15)

calculate_drekkana_bala(planet, degree) ==
    LET deg_in_sign == PyFloatModPos(degree, RInt(30))
        drekkana == IF RLt(deg_in_sign, RInt(10)) THEN 1
                    ELSE IF RLt(deg_in_sign, RInt(20)) THEN 2
                    ELSE 3
    IN  IF planet \in {"SUN", "MARS", "JUPITER"} /\ drekkana = 1 THEN RInt(15)
        ELSE IF planet \in {"MERCURY", "SATURN"} /\ drekkana = 2 THEN RInt(15)
        ELSE IF planet \in {"MOON", "VENUS"} /\ drekkana = 3 THEN RInt(15)
        ELSE RInt(0)

calculate_sthana_bala(ascendant, planet, longitude, varga_positions) ==
    LET rashi == RTrunc(RDiv(longitude, RInt(30)))
        degree == PyFloatModPos(longitude, RInt(30))
        uccha == calculate_uccha_bala(planet, longitude)
        saptavarga == calculate_saptavargaja_bala(planet, varga_positions)
        ojha == calculate_ojhayugma_bala(planet, rashi)
        kendra == calculate_kendradi_bala(ascendant, planet, rashi)
        drekkana == calculate_drekkana_bala(planet, degree)
    IN  RDiv(RAdd(RAdd(RAdd(RAdd(uccha, saptavarga), ojha), kendra), drekkana),
             RInt(60))

calculate_dig_bala(ascendant, planet, rashi) ==
    IF planet \notin DOMAIN DIG_BALA_POSITIONS THEN RInt(0)
    ELSE LET strong_house == DIG_BALA_POSITIONS[planet]
             weak_house == ((strong_house - 1 + 6) % 12) + 1
             current_house == get_house(ascendant, rashi)
             apart == Abs(current_house - weak_house)
             distance == IF apart > 6 THEN 12 - apart ELSE apart
         IN  RDiv(RMul(Rat(distance, 6), RInt(60)), RInt(60))

calculate_kala_bala(day_birth, planet) ==
    LET base == IF planet \in {"SUN", "JUPITER", "VENUS"}
                THEN (IF day_birth THEN 60 ELSE 0)
                ELSE IF planet \in {"MOON", "MARS", "SATURN"}
                THEN (IF day_birth THEN 0 ELSE 60)
                ELSE 30
    IN  Rat(base, 60)

calculate_chesta_bala(planet, speed) ==
    IF planet \in {"SUN", "MOON"} THEN Rat(1, 2)
    ELSE IF RLt(speed, RInt(0)) THEN Rat(60, 60)
    ELSE IF speed = RInt(0) THEN Rat(30, 60)
    ELSE Rat(15, 60)

calculate_naisargika_bala(planet) ==
    IF planet \in DOMAIN NATURAL_STRENGTH
    THEN RDiv(NATURAL_STRENGTH[planet], RInt(60))
    ELSE RInt(0)

RECURSIVE DrikLoop(_, _, _)
\* the loop "for aspect in aspects", from the k-th aspect on
DrikLoop(total, aspects, k) ==
    IF k > Len(aspects) THEN total
    ELSE IF aspects[k].planet \in {"JUPITER", "VENUS", "MERCURY", "MOON"}
    THEN DrikLoop(total + 15, aspects, k + 1)
    ELSE IF aspects[k].planet \in {"SATURN", "MARS", "SUN", "RAHU", "KETU"}
    THEN DrikLoop(total - 15, aspects, k + 1)
    ELSE DrikLoop(total, aspects, k + 1)

calculate_drik_bala(planet, aspects) ==
    LET total == DrikLoop(0, aspects, 1)
    IN  Rat(IF total + 30 > 0 THEN total + 30 ELSE 0, 60)

\* the sum sthana + dig + kala + chesta + naisargika + drik
SixSum(sthana, dig, kala, chesta, naisargika, drik) ==
    RAdd(RAdd(RAdd(RAdd(RAdd(sthana, dig), kala), chesta), naisargika), drik)

RequiredStrength(planet) ==
    IF planet \in DOMAIN MINIMUM_SHADBALA THEN MINIMUM_SHADBALA[planet]
    ELSE RInt(5)

ShadbalaResult(planet, sthana, dig, kala, chesta, naisargika, drik, total) ==
    [planet |-> planet,
     sthana_bala |-> Round2(sthana),
     dig_bala |-> Round2(dig),
     kala_bala |-> Round2(kala),
     chesta_bala |-> Round2(chesta),
     naisargika_bala |-> Round2(naisargika),
     drik_bala |-> Round2(drik),
     total_shadbala |-> Round2(total),
     required_strength |-> RequiredStrength(planet),
     is_strong |-> RLe(RequiredStrength(planet), total)]

calculate_shadbala(ascendant, day_birth, planet, longitude, speed, varga_positions, aspects) ==
    Bind(calculate_sthana_bala(ascendant, planet, longitude, varga_positions),
         LAMBDA sthana :
             Bind(calculate_dig_bala(ascendant, planet,
                                     RTrunc(RDiv(longitude, RInt(30)))),
                  LAMBDA dig :
                      Bind(SixSum(sthana, dig,
                                  calculate_kala_bala(day_birth, planet),
                                  calculate_chesta_bala(planet, speed),
                                  calculate_naisargika_bala(planet),
                                  calculate_drik_bala(planet, aspects)),
                           LAMBDA total :
                               ShadbalaResult(planet, sthana, dig,
                                   calculate_kala_bala(day_birth, planet),
                                   calculate_chesta_bala(planet, speed),
                                   calculate_naisargika_bala(planet),
                                   calculate_drik_bala(planet, aspects),
                                   total))))

----------------------------------------------------------------------------
(* The Shadbala calculator and the call made on it.                        *)

\* Longitudes of a body as the ephemeris gives them, in [0, 360).
ShadbalaLongitudes ==
    { Rat(0, 1), Rat(25, 2), Rat(121, 4), Rat(95, 1), Rat(533, 4),
      Rat(200, 1), Rat(561, 2), Rat(1439, 4) }

\* Retrograde, stationary and direct daily motion.
Speeds ==
    { Rat(-1, 10), Rat(0, 1), Rat(1, 1) }

\* No aspect, one benefic aspect, three malefic aspects.
AspectLists ==
    { << >>,
      << [planet |-> "JUPITER"] >>,
      << [planet |-> "SATURN"], [planet |-> "MARS"], [planet |-> "SUN"] >> }

ShadbalaPlanets ==
    Range(SarvaPlanets)

InitShadbala ==
    /\ moon_longitude = "none"
    /\ birth_dt = DateTime(1990, 1, 1, 12, 0, 0)
    /\ nakshatra = "none"
    /\ positions \in { PlacementAt(1, 3) }
    /\ ascendant_rashi \in { 0, 3 }
    /\ is_day_birth \in BOOLEAN
    /\ sun_longitude = "none"
    /\ op = "none"
    /\ arg = << >>
    /\ ret = << >>
    /\ prev = NoCall

CalculateShadbala ==
    /\ op = "none"
    /\ \E planet \in ShadbalaPlanets, longitude \in ShadbalaLongitudes,
          speed \in Speeds, aspects \in AspectLists :
        /\ op' = "calculate_shadbala"
        /\ arg' = [planet |-> planet, longitude |-> longitude, speed |-> speed,
                   aspects |-> aspects]
        /\ ret' = Bind(get_all_divisional_positions(longitude),
                       LAMBDA varga_positions :
                           calculate_shadbala(ascendant_rashi, is_day_birth, planet,
                                              longitude, speed, varga_positions,
                                              aspects))
    /\ UNCHANGED Object

NextShadbala ==
    CalculateShadbala

SpecShadbala ==
    InitShadbala /\ [][NextShadbala]_vars

----------------------------------------------------------------------------
(* core/panchanga.py: the almanac calculator.  Its fields are the Sun's    *)
(* and the Moon's sidereal longitudes; its methods do not change them.     *)

TITHI_NAMES ==
    << "Pratipada", "Dwitiya", "Tritiya", "Chaturthi", "Panchami",
       "Shashthi", "Saptami", "Ashtami", "Navami", "Dashami",
       "Ekadashi", "Dwadashi", "Trayodashi", "Chaturdashi", "Purnima" >>

TITHI_LORDS ==
    << "Sun", "Moon", "Mars", "Mercury", "Jupiter",
       "Venus", "Saturn", "Rahu", "Sun", "Moon",
       "Mars", "Mercury", "Jupiter", "Venus", "Saturn" >>

TithiInfo(tithi_num, name, paksha, diff) ==
    [number |-> tithi_num,
     name |-> name,
     paksha |-> paksha,
     lord |-> TITHI_LORDS[((tithi_num - 1) % 15) + 1],
     remaining_degrees |-> RSub(RInt(12), PyFloatModPos(diff, RInt(12))),
     is_purnima |-> tithi_num = 15,
     is_amavasya |-> tithi_num = 30 \/ tithi_num = 0]

\* calculate_tithi after diff is taken
TithiOf(diff) ==
    LET tithi_num == RTrunc(RDiv(diff, RInt(12))) + 1
        paksha == IF tithi_num <= 15 THEN "Shukla" ELSE "Krishna"
        tithi_in_paksha == IF tithi_num <= 15 THEN tithi_num ELSE tithi_num - 15
        name == IF tithi_num = 15 THEN "Purnima"
                ELSE IF tithi_num = 30 THEN "Amavasya"
                ELSE TITHI_NAMES[((tithi_in_paksha - 1) % 15) + 1]
    IN  TithiInfo(tithi_num, name, paksha, diff)

calculate_tithi(sun, moon) ==
    Bind(PyFloatMod360(RSub(moon, sun)), LAMBDA diff : TithiOf(diff))

----------------------------------------------------------------------------
(* The almanac calculator and the call made on it.                         *)

MOVABLE_KARANAS ==
    << "Bava", "Balava", "Kaulava", "Taitila", "Gara", "Vanija", "Vishti" >>

FIXED_KARANAS ==
    << "Shakuni", "Chatushpada", "Naga", "Kimstughna" >>

KaranaInfo(number, name, type) ==
    [number |-> number, name |-> name, type |-> type]

\* the name and type of a karana number already folded into 1..60
KaranaOf(karana_num) ==
    IF karana_num = 1
    THEN KaranaInfo(karana_num, "Kimstughna", "fixed")
    ELSE IF karana_num >= 57
    THEN KaranaInfo(karana_num, FIXED_KARANAS[(karana_num - 57) + 1], "fixed")
    ELSE KaranaInfo(karana_num, MOVABLE_KARANAS[((karana_num - 2) % 7) + 1],
                    "movable")

calculate_karana(sun, moon) ==
    Bind(RTrunc(RDiv(PyFloatMod360(RSub(moon, sun)), RInt(6))) + 1,
         LAMBDA karana_num : KaranaOf(IF karana_num > 60 THEN 1 ELSE karana_num))

\* Longitudes of the Sun in [0, 360): the first point, the smallest
\* positive value of the model, and three others.
SunLongitudes ==
    { Rat(0, 1), Rat(1, 131072), Rat(91, 2), Rat(200, 1), Rat(350, 1) }

\* Angles from the Sun to the Moon: every half tithi, angles just before
\* and just after the start of a tithi, and the Moon the smallest step of
\* the model behind the Sun.
Elongations ==
    { Rat(6 * k, 1) : k \in 0..59 }
        \cup { Rat(47, 4), Rat(49, 4), Rat(719, 4), Rat(721, 4), Rat(1439, 4),
               RSub(RInt(360), Rat(1, 131072)) }

\* The Moon's longitude in [0, 360) at an angle from the Sun.
MoonAt(sun, elongation) ==
    PyFloatModPos(RAdd(sun, elongation), RInt(360))

InitPanchanga ==
    /\ sun_longitude \in SunLongitudes
    /\ \E elongation \in Elongations :
           moon_longitude = MoonAt(sun_longitude, elongation)
    /\ birth_dt = "none"
    /\ nakshatra = "none"
    /\ positions = "none"
    /\ ascendant_rashi = "none"
    /\ is_day_birth = "none"
    /\ op = "none"
    /\ arg = << >>
    /\ ret = << >>
    /\ prev = NoCall

CalculateTithi ==
    /\ op = "none"
    /\ op' = "calculate_tithi"
    /\ arg' = << >>
    /\ ret' = calculate_tithi(sun_longitude, moon_longitude)
    /\ UNCHANGED Object

CalculateKarana ==
    /\ op = "none"
    /\ op' = "calculate_karana"
    /\ arg' = << >>
    /\ ret' = calculate_karana(sun_longitude, moon_longitude)
    /\ UNCHANGED Object

NextPanchanga ==
    \/ CalculateTithi
    \/ CalculateKarana

SpecPanchanga ==
    InitPanchanga /\ [][NextPanchanga]_vars

----------------------------------------------------------------------------
(* core/yogas.py: YogaCalculator, built from a dict of signs and the sign  *)
(* of the ascendant.  A finding keeps the fields of YogaResult that the    *)
(* detectors compute; sanskrit_name and effects are fixed texts.           *)

KENDRAS ==
    {1, 4, 7, 10}

TRIKONAS ==
    {1, 5, 9}

SIGN_LORDS ==
    << "MARS", "VENUS", "MERCURY", "MOON", "SUN", "MERCURY", "VENUS", "MARS",
       "JUPITER", "SATURN", "SATURN", "JUPITER" >>

YogaResult(name, category, planets_involved, houses_involved, strength, is_present) ==
    [name |-> name, category |-> category,
     planets_involved |-> planets_involved,
     houses_involved |-> houses_involved,
     strength |-> strength, is_present |-> is_present]

calculate_houses(planet_rashis, ascendant) ==
    [planet \in DOMAIN planet_rashis |->
        ((planet_rashis[planet] - ascendant) % 12) + 1]

\* self.houses.get(planet, 0)
HouseOrZero(houses, planet) ==
    IF planet \in DOMAIN houses THEN houses[planet] ELSE 0

get_planets_in_house(houses, house) ==
    { planet \in DOMAIN houses : houses[planet] = house }

get_sign_lord(sign) ==
    SIGN_LORDS[sign + 1]

get_house_lord(ascendant, house) ==
    get_sign_lord((ascendant + house - 1) % 12)

is_in_kendra(houses, planet) ==
    HouseOrZero(houses, planet) \in KENDRAS

is_in_trikona(houses, planet) ==
    HouseOrZero(houses, planet) \in TRIKONAS

\* ((h2 - h1) % 12 + 1) in [1, 4, 7, 10]
InMutualKendra(h1, h2) ==
    (((h2 - h1) % 12) + 1) \in {1, 4, 7, 10}

detect_gajakesari_yoga(houses) ==
    LET moon_house == HouseOrZero(houses, "MOON")
        jupiter_house == HouseOrZero(houses, "JUPITER")
        is_present == InMutualKendra(moon_house, jupiter_house)
        strength == IF is_present /\ is_in_kendra(houses, "JUPITER") THEN "strong"
                    ELSE IF is_present /\ is_in_trikona(houses, "JUPITER")
                    THEN "medium"
                    ELSE "weak"
    IN  YogaResult("Gajakesari Yoga", "rajayoga", << "MOON", "JUPITER" >>,
                   << moon_house, jupiter_house >>, strength, is_present)

\* planet, name, own signs, exaltation signs
MAHAPURUSHA ==
    << << "MARS", "Ruchaka", {0, 7}, {9} >>,
       << "MERCURY", "Bhadra", {2, 5}, {5} >>,
       << "JUPITER", "Hamsa", {8, 11}, {3} >>,
       << "VENUS", "Malavya", {1, 6}, {11} >>,
       << "SATURN", "Shasha", {9, 10}, {6} >> >>

MahapurushaResult(planet_rashis, houses, entry) ==
    LET planet == entry[1]
        planet_rashi == planet_rashis[planet]
        planet_house == houses[planet]
        in_own == planet_rashi \in entry[3]
        in_exalted == planet_rashi \in entry[4]
        in_kendra == planet_house \in KENDRAS
        is_present == (in_own \/ in_exalted) /\ in_kendra
        strength == IF in_exalted /\ in_kendra THEN "strong"
                    ELSE IF is_present THEN "medium" ELSE "weak"
    IN  YogaResult(entry[2] \o " Yoga", "mahapurusha", << planet >>,
                   << planet_house >>, strength, is_present)

RECURSIVE MahapurushaLoop(_, _, _)
MahapurushaLoop(planet_rashis, houses, k) ==
    IF k > Len(MAHAPURUSHA)
    THEN << >>
    ELSE IF MAHAPURUSHA[k][1] \notin DOMAIN planet_rashis
    THEN MahapurushaLoop(planet_rashis, houses, k + 1)
    ELSE << MahapurushaResult(planet_rashis, houses, MAHAPURUSHA[k]) >>
             \o MahapurushaLoop(planet_rashis, houses, k + 1)

detect_pancha_mahapurusha_yogas(planet_rashis, houses) ==
    MahapurushaLoop(planet_rashis, houses, 1)

\* the body of the double loop for one kendra lord and one trikona lord
KendraTrikonaResult(houses, k_lord, t_lord) ==
    LET k_house == HouseOrZero(houses, k_lord)
        t_house == HouseOrZero(houses, t_lord)
        are_conjunct == k_house = t_house
        are_in_mutual_kendra == InMutualKendra(k_house, t_house)
        is_present == are_conjunct \/ are_in_mutual_kendra
    IN  IF k_lord = t_lord \/ ~is_present
        THEN << >>
        ELSE << YogaResult("Kendra-Trikona Rajayoga", "rajayoga",
                           << k_lord, t_lord >>, << k_house, t_house >>,
                           IF are_conjunct THEN "strong" ELSE "medium", TRUE) >>

RECURSIVE KendraTrikonaLoop(_, _, _, _)
KendraTrikonaLoop(houses, kendra_lords, trikona_lords, k) ==
    IF k > Len(kendra_lords) * Len(trikona_lords)
    THEN << >>
    ELSE KendraTrikonaResult(houses,
                             kendra_lords[((k - 1) \div Len(trikona_lords)) + 1],
                             trikona_lords[((k - 1) % Len(trikona_lords)) + 1])
             \o KendraTrikonaLoop(houses, kendra_lords, trikona_lords, k + 1)

detect_kendra_trikona_rajayoga(houses, ascendant) ==
    LET kendra_lords == << get_house_lord(ascendant, 1), get_house_lord(ascendant, 4),
                           get_house_lord(ascendant, 7), get_house_lord(ascendant, 10) >>
        trikona_lords == << get_house_lord(ascendant, 5), get_house_lord(ascendant, 9) >>
    IN  KendraTrikonaLoop(houses, kendra_lords, trikona_lords, 1)

\* one wealth combination: the lords of two houses conjunct or connected
DhanaResult(houses, ascendant, name, house_a, house_b) ==
    LET lord_a == get_house_lord(ascendant, house_a)
        lord_b == get_house_lord(ascendant, house_b)
        house_a_lord == HouseOrZero(houses, lord_a)
        house_b_lord == HouseOrZero(houses, lord_b)
        are_conjunct == house_a_lord = house_b_lord
        are_connected == InMutualKendra(house_a_lord, house_b_lord)
    IN  IF are_conjunct \/ are_connected
        THEN << YogaResult(name, "dhana", << lord_a, lord_b >>,
                           << house_a, house_b >>,
                           IF are_conjunct THEN "strong" ELSE "medium", TRUE) >>
        ELSE << >>

detect_dhana_yogas(houses, ascendant) ==
    DhanaResult(houses, ascendant, "Dhana Yoga (2-11)", 2, 11)
        \o DhanaResult(houses, ascendant, "Lakshmi Yoga", 5, 9)

detect_kemadruma_yoga(houses) ==
    LET moon_house == HouseOrZero(houses, "MOON")
        house_2_from_moon == (moon_house % 12) + 1
        house_12_from_moon == ((moon_house - 2) % 12) + 1
        planets_2nd == get_planets_in_house(houses, house_2_from_moon)
                           \ {"MOON", "RAHU", "KETU"}
        planets_12th == get_planets_in_house(houses, house_12_from_moon)
                            \ {"MOON", "RAHU", "KETU"}
        is_present == planets_2nd = {} /\ planets_12th = {}
        cancelled == \E planet \in {"JUPITER", "VENUS", "MERCURY"} :
                         is_in_kendra(houses, planet)
    IN  YogaResult("Kemadruma Yoga", "daridra", << "MOON" >>, << moon_house >>,
                   IF cancelled THEN "weak" ELSE "medium",
                   is_present /\ ~cancelled)

ViparitaName(house) ==
    CASE house = 6 -> "Viparita Rajayoga (6th lord)"
      [] house = 8 -> "Viparita Rajayoga (8th lord)"
      [] house = 12 -> "Viparita Rajayoga (12th lord)"

ViparitaResult(houses, ascendant, house) ==
    LET lord == get_house_lord(ascendant, house)
        lord_house == HouseOrZero(houses, lord)
    IN  IF lord_house \in {6, 8, 12}
        THEN << YogaResult(ViparitaName(house), "rajayoga", << lord >>,
                           << house, lord_house >>, "medium", TRUE) >>
        ELSE << >>

detect_viparita_rajayoga(houses, ascendant) ==
    ViparitaResult(houses, ascendant, 6)
        \o ViparitaResult(houses, ascendant, 8)
        \o ViparitaResult(houses, ascendant, 12)

detect_budhaditya_yoga(houses) ==
    LET sun_house == HouseOrZero(houses, "SUN")
        mercury_house == HouseOrZero(houses, "MERCURY")
        is_conjunct == sun_house = mercury_house
    IN  YogaResult("Budhaditya Yoga", "rajayoga", << "SUN", "MERCURY" >>,
                   << sun_house, mercury_house >>,
                   IF is_conjunct THEN "medium" ELSE "weak", is_conjunct)

\* the finding, if it is present
IfPresent(yoga) ==
    IF yoga.is_present THEN << yoga >> ELSE << >>

detect_all_yogas(planet_rashis, ascendant) ==
    Bind(calculate_houses(planet_rashis, ascendant), LAMBDA houses :
        IfPresent(detect_gajakesari_yoga(houses))
            \o SelectSeq(detect_pancha_mahapurusha_yogas(planet_rashis, houses),
                         LAMBDA yoga : yoga.is_present)
            \o detect_kendra_trikona_rajayoga(houses, ascendant)
            \o detect_dhana_yogas(houses, ascendant)
            \o IfPresent(detect_kemadruma_yoga(houses))
            \o detect_viparita_rajayoga(houses, ascendant)
            \o IfPresent(detect_budhaditya_yoga(houses)))

\* services/advanced_service.py: get_yogas, from the positions on.
get_yogas(planet_positions) ==
    Bind(detect_all_yogas(planet_positions, planet_positions["ASCENDANT"]),
         LAMBDA all_yogas :
             [total_yogas |-> Len(all_yogas),
              rajayogas |-> SelectSeq(all_yogas, LAMBDA y :
                                y.category \in {"rajayoga", "mahapurusha"}),
              dhana_yogas |-> SelectSeq(all_yogas, LAMBDA y : y.category = "dhana"),
              other_yogas |-> SelectSeq(all_yogas, LAMBDA y :
                                 y.category \notin {"rajayoga", "mahapurusha", "dhana"})])

----------------------------------------------------------------------------
(* The yoga calculator and the calls made on it.                           *)

\* A chart: the Moon, the three benefics together, the Sun, Mars and Saturn
\* together, the nodes opposite each other, and the ascendant entry.
YogaChartAt(moon, benefics, others, rahu, ascendant) ==
    [planet \in Range(Bodies) |->
        CASE planet = "MOON" -> moon
          [] planet \in {"JUPITER", "VENUS", "MERCURY"} -> benefics
          [] planet \in {"SUN", "MARS", "SATURN"} -> others
          [] planet = "RAHU" -> rahu
          [] planet = "KETU" -> (rahu + 6) % 12
          [] planet = "ASCENDANT" -> ascendant]

\* Charts as the service builds them, with the ascendant entry in the sign
\* of the ascendant, and the same charts without that entry.
YogaCharts ==
    LET complete == { YogaChartAt(moon, benefics, others, rahu, ascendant) :
                        moon \in {0, 4, 6}, benefics \in {1, 7, 10},
                        others \in {1, 3, 8}, rahu \in {2, 5},
                        ascendant \in {2, 5, 9} }
                    \cup { [PlacementAt(step, first) EXCEPT !["ASCENDANT"] = first] :
                             step \in {1, 5, 7}, first \in {0, 2, 8} }
    IN  complete \cup { Only(chart, Range(Bodies) \ {"ASCENDANT"}) : chart \in complete }

InitYogas ==
    /\ moon_longitude = "none"
    /\ birth_dt = "none"
    /\ nakshatra = "none"
    /\ \E chart \in YogaCharts, ascendant \in {2, 5, 9} :
           /\ positions = chart
           /\ ascendant_rashi = IF "ASCENDANT" \in DOMAIN chart
                                THEN chart["ASCENDANT"] ELSE ascendant
    /\ is_day_birth = "none"
    /\ sun_longitude = "none"
    /\ op = "none"
    /\ arg = << >>
    /\ ret = << >>
    /\ prev = NoCall

DetectKemadrumaYoga ==
    /\ op = "none"
    /\ op' = "detect_kemadruma_yoga"
    /\ arg' = << >>
    /\ ret' = detect_kemadruma_yoga(calculate_houses(positions, ascendant_rashi))
    /\ UNCHANGED Object

DetectAllYogas ==
    /\ op = "none"
    /\ op' = "detect_all_yogas"
    /\ arg' = << >>
    /\ ret' = detect_all_yogas(positions, ascendant_rashi)
    /\ UNCHANGED Object

ServiceGetYogas ==
    /\ op = "none"
    /\ "ASCENDANT" \in DOMAIN positions
    /\ op' = "get_yogas"
    /\ arg' = << >>
    /\ ret' = get_yogas(positions)
    /\ UNCHANGED Object

NextYogas ==
    \/ DetectKemadrumaYoga
    \/ DetectAllYogas
    \/ ServiceGetYogas

SpecYogas ==
    InitYogas /\ [][NextYogas]_vars

----------------------------------------------------------------------------
(* Properties of the Dasha timeline engine.                                *)

RECURSIVE SumDays(_)
SumDays(periods) ==
    IF periods = << >> THEN RInt(0)
    ELSE RAdd(Head(periods).days, SumDays(Tail(periods)))

CyclicFrom(lord, periods) ==
    /\ Len(periods) = 9
    /\ \A i \in 0..8 :
           periods[i + 1].lord =
               DASHA_SEQUENCE[((SequenceIndex(lord) + i) % 9) + 1]
    /\ Cardinality({ periods[i].lord : i \in 1..9 }) = 9

\* C3: calculate_antardasha(M) returns exactly 9 sub-periods whose lords
\* are DASHA_SEQUENCE[(index of M.lord + i) mod 9] for i = 0..8, each ruler
\* once; calculate_pratyantardasha(S) likewise, starting at S.lord.
C3_ChildrenCycleFromParentLord ==
    /\ op = "calculate_antardasha" => CyclicFrom(arg.lord, ret)
    /\ op = "calculate_pratyantardasha" => CyclicFrom(arg.lord, ret)

C3_Witness ==
    /\ op = "calculate_pratyantardasha"
    /\ arg.lord = "Mercury"
    /\ ret[1].lord = "Mercury"
    /\ ret[2].lord = "Ketu"

\* The children start at the parent's start, follow one another without
\* gap or overlap, and the last ends at the parent's end.
Partitions(parent, children) ==
    /\ children[1].start = parent.start
    /\ \A i \in 1..(Len(children) - 1) : children[i + 1].start = children[i].end
    /\ children[Len(children)].end = parent.end

\* C4: the 9 sub-periods of every major period (birth period included)
\* partition its time span exactly, and so do the 9 sub-sub-periods of
\* every sub-period.
C4_ChildrenPartitionParent ==
    op \in {"calculate_antardasha", "calculate_pratyantardasha"} =>
        Partitions(arg, ret)

\* C5: element 0 of the timeline starts at the birth instant, has the
\* birth ruler and alone is flagged is_birth_dasha; every later element i
\* has lord DASHA_SEQUENCE[(index of birth ruler + i) mod 9], that lord's
\* full years, days = years * 365.25, and starts where element i-1 ends.
C5_TimelineStructure ==
    op = "generate_mahadasha_timeline" =>
        /\ Len(ret) >= 1
        /\ ret[1].start = birth_dt
        /\ ret[1].lord = nakshatra.lord
        /\ ret[1].is_birth_dasha
        /\ \A i \in 2..Len(ret) :
               /\ ~ret[i].is_birth_dasha
               /\ ret[i].lord =
                      DASHA_SEQUENCE[((SequenceIndex(nakshatra.lord) + i - 1) % 9) + 1]
               /\ ret[i].years = RInt(DASHA_YEARS[ret[i].lord])
               /\ ret[i].days = RMul(ret[i].years, DAYS_PER_YEAR)
               /\ ret[i].start = ret[i - 1].end

C5_Witness ==
    /\ op = "generate_mahadasha_timeline"
    /\ Len(ret) = 10
    /\ ret[10].lord = ret[1].lord
    /\ ret[10].years # ret[1].years
    /\ ret[10].start = ret[9].end

\* The same period, by its lord and its two ends.
Same(period, reported) ==
    /\ reported.lord = period.lord
    /\ reported.start = period.start
    /\ reported.end = period.end

Within(reported, date) ==
    DtLe(reported.start, date) /\ DtLe(date, reported.end)

HasError(result) ==
    "error" \in DOMAIN result

OutsideTimeline ==
    "Target date is outside the dasha timeline"

\* The target lies between the birth instant and the end of the timeline.
InsideTimeline(tl, birth, date) ==
    DtLe(birth, date) /\ DtLe(date, tl[Len(tl)].end)

AllLevelsFound(tl, date, result) ==
    /\ ~HasError(result)
    /\ Within(result.mahadasha, date)
    /\ Within(result.antardasha, date)
    /\ result.pratyantardasha # NoPeriod
    /\ Within(result.pratyantardasha, date)
    /\ \E m \in Range(tl) :
           /\ Same(m, result.mahadasha)
           /\ \E a \in Range(calculate_antardasha(m)) :
                  /\ Same(a, result.antardasha)
                  /\ \E p \in Range(calculate_pratyantardasha(a)) :
                         Same(p, result.pratyantardasha)

\* C6: for every target between the birth instant and the end of the last
\* major period, get_current_periods returns no error and all three
\* levels, each containing the target and each one of its parent's 9
\* children; the sub-sub-period is never null.
C6_LookupFindsAllLevels ==
    op = "get_current_periods" =>
        Bind(generate_mahadasha_timeline(nakshatra, birth_dt, 120), LAMBDA tl :
            InsideTimeline(tl, birth_dt, arg) => AllLevelsFound(tl, arg, ret))

SharedBoundary(children, k, date) ==
    children[k].end = date /\ children[k + 1].start = date

MajorBoundaryRule(tl, date, result) ==
    \A k \in 1..(Len(tl) - 1) :
        SharedBoundary(tl, k, date) =>
            ~HasError(result) /\ Same(tl[k], result.mahadasha)

SubSubBoundaryRule(a, date, result) ==
    Bind(calculate_pratyantardasha(a), LAMBDA pratyantars :
        \A k \in 1..8 :
            SharedBoundary(pratyantars, k, date) =>
                /\ result.pratyantardasha # NoPeriod
                /\ Same(pratyantars[k], result.pratyantardasha))

SubBoundaryRule(m, date, result) ==
    Bind(calculate_antardasha(m), LAMBDA antardashas :
        /\ \A k \in 1..8 :
               SharedBoundary(antardashas, k, date) =>
                   Same(antardashas[k], result.antardasha)
        /\ \A a \in Range(antardashas) :
               Same(a, result.antardasha) =>
                   SubSubBoundaryRule(a, date, result))

\* C8: when the target is the shared boundary of two consecutive periods,
\* get_current_periods returns the earlier of the two, at the major, the
\* sub and the sub-sub level.
C8_EarlierPeriodWinsAtBoundary ==
    op = "get_current_periods" =>
        Bind(generate_mahadasha_timeline(nakshatra, birth_dt, 120), LAMBDA tl :
            /\ MajorBoundaryRule(tl, arg, ret)
            /\ ~HasError(ret) =>
                   \A m \in Range(tl) :
                       Same(m, ret.mahadasha) => SubBoundaryRule(m, arg, ret))

\* The longitude brought into [0, 360), its mansion and its degree in it.
Normalised(longitude) ==
    RSub(longitude, RInt(360 * RFloor(RDiv(longitude, RInt(360)))))

MansionOf(longitude) ==
    RFloor(RDiv(Normalised(longitude), Rat(40, 3)))

DegreeInMansion(longitude) ==
    RSub(Normalised(longitude), RMul(RInt(MansionOf(longitude)), Rat(40, 3)))

\* C9: calculate_dasha_balance returns the ruler of the Moon's mansion,
\* elapsed_fraction = degree in mansion / mansion span in [0, 1),
\* remaining_years = total_years * (1 - elapsed_fraction) in (0, total],
\* elapsed_years + remaining_years = total_years and end_date = birth +
\* remaining_years * 365.25 days; at longitude 0 Ketu with 7 years, and
\* anywhere in Rohini (from 40 deg up to 53 deg 20 min) the Moon.
C9_DashaBalance ==
    op = "calculate_dasha_balance" =>
        /\ ret.lord = DASHA_SEQUENCE[(MansionOf(moon_longitude) % 9) + 1]
        /\ ret.total_years = DASHA_YEARS[ret.lord]
        /\ ret.elapsed_fraction =
               RDiv(DegreeInMansion(moon_longitude), Rat(40, 3))
        /\ RLe(RInt(0), ret.elapsed_fraction)
        /\ RLt(ret.elapsed_fraction, RInt(1))
        /\ ret.remaining_years =
               RMul(RInt(ret.total_years), RSub(RInt(1), ret.elapsed_fraction))
        /\ RLt(RInt(0), ret.remaining_years)
        /\ RLe(ret.remaining_years, RInt(ret.total_years))
        /\ RAdd(ret.elapsed_years, ret.remaining_years) = RInt(ret.total_years)
        /\ ret.end_date =
               DtAdd(birth_dt, TdFromDays(RMul(ret.remaining_years, Rat(1461, 4))))
        /\ moon_longitude = RInt(0) =>
               ret.lord = "Ketu" /\ ret.remaining_years = RInt(7)
        /\ RLe(RInt(40), moon_longitude) /\ RLt(moon_longitude, Rat(160, 3)) =>
               ret.lord = "Moon"

C9_Witness ==
    /\ op = "calculate_dasha_balance"
    /\ moon_longitude = Rat(920, 21)
    /\ ret.lord = "Moon"
    /\ ret.elapsed_fraction = Rat(2, 7)
    /\ ret.remaining_years = Rat(50, 7)

----------------------------------------------------------------------------
(* Properties of the classifier.                                           *)

\* C10: classification has period 360: get_rashi(L + 360) returns the sign
\* index and degree-in-sign of get_rashi(L), and get_nakshatra(L + 360) the
\* mansion index, ruler and pada of get_nakshatra(L), negative L included;
\* 360 is sign 0 / mansion 0 and -10 is sign 11 / mansion 26.
C10_PeriodicClassification ==
    /\ (op = "get_rashi" /\ prev.op = "get_rashi"
            /\ arg = FloatPlus(prev.arg, RInt(360))) =>
           /\ prev.ret.raised = "none"
           /\ ret.raised = "none"
           /\ ret.index = prev.ret.index
           /\ ret.degree = prev.ret.degree
    /\ (op = "get_nakshatra" /\ prev.op = "get_nakshatra"
            /\ arg = FloatPlus(prev.arg, RInt(360))) =>
           /\ ret.index = prev.ret.index
           /\ ret.lord = prev.ret.lord
           /\ ret.pada = prev.ret.pada
    /\ (op = "get_rashi" /\ arg = RInt(360)) => ret.index = 0
    /\ (op = "get_nakshatra" /\ arg = RInt(360)) => ret.index = 0
    /\ (op = "get_rashi" /\ arg = RInt(-10)) => ret.index = 11
    /\ (op = "get_nakshatra" /\ arg = RInt(-10)) => ret.index = 26

\* C11: get_rashi returns a sign index in 0..11 and a degree-in-sign d with
\* 0 <= d < 30 and index * 30 + d = L mod 360, for every longitude L; a
\* longitude just below 30 is sign 0 and exactly 30 is sign 1, degree 0.
C11_RashiDecomposition ==
    op = "get_rashi" =>
        /\ ret.raised = "none"
        /\ ret.index \in 0..11
        /\ RLe(RInt(0), ret.degree)
        /\ RLt(ret.degree, RInt(30))
        /\ RAdd(RInt(ret.index * 30), ret.degree) = Normalised(arg)
        /\ arg = Rat(29999, 1000) => ret.index = 0
        /\ arg = RInt(30) => ret.index = 1 /\ ret.degree = RInt(0)

\* C12: get_nakshatra returns index = floor((L mod 360) / (360/27)) in
\* 0..26, a degree-in-mansion in [0, span) with index * span + degree =
\* L mod 360, pada = floor(degree / (span / 4)) + 1 in 1..4, and the lord
\* of the 9-ruler cycle at index mod 9; the clamps change no value.
C12_NakshatraDecomposition ==
    op = "get_nakshatra" =>
        /\ ret.index \in 0..26
        /\ ret.index = MansionOf(arg)
        /\ RLe(RInt(0), ret.degree)
        /\ RLt(ret.degree, Rat(40, 3))
        /\ RAdd(RMul(RInt(ret.index), Rat(40, 3)), ret.degree) = Normalised(arg)
        /\ ret.pada \in 1..4
        /\ ret.pada = RFloor(RDiv(DegreeInMansion(arg), Rat(10, 3))) + 1
        /\ ret.lord = DASHA_SEQUENCE[(ret.index % 9) + 1]

----------------------------------------------------------------------------
(* Properties of the divisional chart engine.                              *)

\* The N of a division code: the number of parts of a sign.
DivisionCount(division) ==
    CASE division = "D1" -> 1
      [] division = "D2" -> 2
      [] division = "D3" -> 3
      [] division = "D4" -> 4
      [] division = "D7" -> 7
      [] division = "D9" -> 9
      [] division = "D10" -> 10
      [] division = "D12" -> 12
      [] division = "D16" -> 16
      [] division = "D20" -> 20
      [] division = "D24" -> 24
      [] division = "D30" -> 30
      [] division = "D60" -> 60

\* floor(degree-in-sign / (30 / N))
DivisionIndex(longitude, division) ==
    RFloor(RDiv(RSub(Normalised(longitude), RInt(30 * RFloor(RDiv(Normalised(longitude), RInt(30))))),
                Rat(30, DivisionCount(division))))

WellFormedPosition(position) ==
    /\ position.rashi \in 0..11
    /\ RLe(RInt(0), position.degree)
    /\ RLt(position.degree, RInt(30))
    /\ position.longitude = RAdd(RInt(position.rashi * 30), position.degree)
    /\ RLe(RInt(0), position.longitude)
    /\ RLt(position.longitude, RInt(360))

\* C13: for every longitude and each of the 13 divisions returned by
\* get_all_divisional_positions, the position has rashi in 0..11, degree
\* in [0, 30), a division index in 0..N-1, and a longitude field equal to
\* rashi * 30 + degree that lies in [0, 360).
C13_DivisionalPositionsWellFormed ==
    op = "get_all_divisional_positions" =>
        /\ DOMAIN ret = DivisionCodes
        /\ \A division \in DivisionCodes :
               /\ WellFormedPosition(ret[division])
               /\ DivisionIndex(arg, division) \in 0..(DivisionCount(division) - 1)

----------------------------------------------------------------------------
(* Properties of the Ashtakavarga engine.                                  *)

\* C15: for every placement and each of the 7 classical bodies, every one
\* of the 12 entries of the profile from calculate_bhinnashtaka is an
\* integer in 0..8.
C15_BhinnaEntriesAtMostEight ==
    (op = "calculate_bhinnashtaka" /\ arg \in Range(SarvaPlanets)) =>
        /\ DOMAIN ret.bindus = 0..11
        /\ \A i \in 0..11 : ret.bindus[i] \in 0..8

C15_Witness ==
    /\ op = "calculate_bhinnashtaka"
    /\ arg = "VENUS"
    /\ \E i \in 0..11 : ret.bindus[i] = 8
    /\ \E i \in 0..11 : ret.bindus[i] = 0

\* C16 as stated: the combined profile from calculate_sarvashtaka has
\* total_bindus at most 56.
C16_SarvaTotalAtMost56 ==
    op = "calculate_sarvashtaka" => ret.total_bindus <= 56

\* C16 amended: every one of the 12 per-sign entries of the combined
\* profile is at most 56 (7 bodies, at most 8 points each), and
\* total_bindus is the sum of the 12 entries, which is 337.
C16_SarvaEntriesAtMost56 ==
    op = "calculate_sarvashtaka" =>
        /\ \A i \in 0..11 : ret.bindus[i] \in 0..56
        /\ ret.total_bindus = SumOver(ret.bindus, 0..11)
        /\ ret.total_bindus = 337

C16_Witness ==
    /\ op = "calculate_sarvashtaka"
    /\ DOMAIN ret.bhinnas = Range(SarvaPlanets)
    /\ ret.total_bindus > 56
    /\ \E i \in 0..11 : ret.bindus[i] >= 40

\* the call failed with an error
Rejected(result) ==
    "raised" \in DOMAIN result /\ result.raised # "none"

\* C19: a body name outside the 7 classical bodies makes
\* calculate_bhinnashtaka and analyze_transit fail with an error instead of
\* returning a profile or a verdict, and a positions map that lacks one of
\* the sources is rejected instead of the source being placed in sign 0.
C19_UnknownBodyRejected ==
    /\ (op \in {"calculate_bhinnashtaka"} /\ arg \notin Range(SarvaPlanets)) =>
           Rejected(ret)
    /\ (op = "analyze_transit" /\ arg.transit_planet \notin Range(SarvaPlanets)) =>
           Rejected(ret)
    /\ (op \in {"calculate_bhinnashtaka", "calculate_sarvashtaka", "analyze_transit"}
            /\ ~(Range(SarvaPlanets) \subseteq DOMAIN positions)) =>
           Rejected(ret)

----------------------------------------------------------------------------
(* Properties of the Shadbala engine.                                      *)

\* C17: in every result of calculate_shadbala the reported total_shadbala
\* is exactly the sum of the six reported components, each as returned
\* (rounded to two decimals).
C17_TotalIsSumOfReported ==
    op = "calculate_shadbala" =>
        ret.total_shadbala = SixSum(ret.sthana_bala, ret.dig_bala, ret.kala_bala,
                                    ret.chesta_bala, ret.naisargika_bala,
                                    ret.drik_bala)

\* C18: in every result of calculate_shadbala, is_strong is true exactly
\* when the reported total_shadbala is at least the reported
\* required_strength, and required_strength is the body's static minimum.
C18_StrongIffTotalAtLeastRequired ==
    op = "calculate_shadbala" =>
        /\ ret.required_strength = MINIMUM_SHADBALA[arg.planet]
        /\ ret.is_strong <=> RLe(ret.required_strength, ret.total_shadbala)

----------------------------------------------------------------------------
(* Properties of the Panchanga engine.                                     *)

\* floor(((Moon - Sun) mod 360) / 12) + 1
TithiNumber(sun, moon) ==
    RFloor(RDiv(PyFloatModPos(RSub(moon, sun), RInt(360)), RInt(12))) + 1

\* C20: for all Sun and Moon longitudes calculate_tithi returns number =
\* floor(((Moon - Sun) mod 360) / 12) + 1, in 1..30; paksha is Shukla
\* exactly when number <= 15, else Krishna; name is Purnima at 15, Amavasya
\* at 30 and otherwise TITHI_NAMES[(number - 1) mod 15]; is_purnima exactly
\* at 15 and is_amavasya exactly at 30.
C20_Tithi ==
    op = "calculate_tithi" =>
        /\ ret.number = TithiNumber(sun_longitude, moon_longitude)
        /\ ret.number \in 1..30
        /\ ret.paksha = (IF ret.number <= 15 THEN "Shukla" ELSE "Krishna")
        /\ ret.name = (IF ret.number = 15 THEN "Purnima"
                       ELSE IF ret.number = 30 THEN "Amavasya"
                       ELSE TITHI_NAMES[((ret.number - 1) % 15) + 1])
        /\ ret.is_purnima <=> ret.number = 15
        /\ ret.is_amavasya <=> ret.number = 30

----------------------------------------------------------------------------
(* Further properties of the Dasha timeline engine.                        *)

\* C21: generate_mahadasha_timeline(years_ahead) returns for every
\* years_ahead >= 0 and every Moon longitude (each pass of its loop adds a
\* period of at least 6 years, so the timeline has at most
\* years_ahead / 6 + 2 periods); the last period ends at or after
\* birth + years_ahead, and every period other than the first starts
\* strictly before birth + years_ahead.
C21_TimelineCoversHorizon ==
    op = "generate_mahadasha_timeline" =>
        /\ Len(ret) >= 1
        /\ Len(ret) <= (arg \div 6) + 2
        /\ DtLe(AddYears(birth_dt, arg), ret[Len(ret)].end)
        /\ \A i \in 2..Len(ret) : DtLt(ret[i].start, AddYears(birth_dt, arg))

C21_Witness ==
    /\ op = "generate_mahadasha_timeline"
    /\ arg = 50
    /\ Len(ret) >= 4
    /\ DtLt(AddYears(birth_dt, arg), ret[Len(ret)].end)
    /\ DtLt(ret[Len(ret)].start, AddYears(birth_dt, arg))
    /\ DtLe(ret[Len(ret) - 1].end, AddYears(birth_dt, arg))

----------------------------------------------------------------------------
(* Further properties of the divisional chart engine.                      *)

\* The sign of a longitude: floor((longitude mod 360) / 30).
SignOf(longitude) ==
    RFloor(RDiv(Normalised(longitude), RInt(30)))

\* The degree within the sign: (longitude mod 360) - 30 * sign.
DegreeInSign(longitude) ==
    RSub(Normalised(longitude), RInt(30 * SignOf(longitude)))

\* The first navamsa sign of a sign, by its element.
ElementStart(sign) ==
    CASE sign \in {0, 4, 8} -> 0
      [] sign \in {1, 5, 9} -> 9
      [] sign \in {2, 6, 10} -> 6
      [] sign \in {3, 7, 11} -> 3

\* C22: for every longitude calculate_navamsa returns rashi =
\* (start + floor(degree-in-sign / (30/9))) mod 12 with start 0 for fire, 9
\* for earth, 6 for air and 3 for water signs; and is_vargottama holds
\* exactly in the 1st navamsa of a movable sign, the 5th of a fixed sign
\* and the 9th of a dual sign.
C22_NavamsaByElement ==
    /\ op = "get_all_divisional_positions" =>
           ret["D9"].rashi =
               (ElementStart(SignOf(arg)) + DivisionIndex(arg, "D9")) % 12
    /\ op = "is_vargottama" =>
           (ret <=> \/ SignOf(arg) % 3 = 0 /\ DivisionIndex(arg, "D9") = 0
                    \/ SignOf(arg) % 3 = 1 /\ DivisionIndex(arg, "D9") = 4
                    \/ SignOf(arg) % 3 = 2 /\ DivisionIndex(arg, "D9") = 8)

\* The sign of a parity-keyed division: (s + k) mod 12 in an odd sign
\* (0-based index even), (s + offset + k) mod 12 in an even sign.
ParitySign(longitude, division, offset) ==
    (SignOf(longitude) + (IF SignOf(longitude) % 2 = 0 THEN 0 ELSE offset)
        + DivisionIndex(longitude, division)) % 12

\* C23: D4 returns (s + k) mod 12 for odd signs and (s + 3 + k) mod 12 for
\* even signs, D7 (s + k) and (s + 6 + k), D10 (s + k) and (s + 8 + k),
\* with s the original sign and k = floor(degree-in-sign / (30/N)).
C23_ParityKeyedDivisions ==
    op = "get_all_divisional_positions" =>
        /\ ret["D4"].rashi = ParitySign(arg, "D4", 3)
        /\ ret["D7"].rashi = ParitySign(arg, "D7", 6)
        /\ ret["D10"].rashi = ParitySign(arg, "D10", 8)

\* The trimsamsa sign of the band that holds degree d of a sign.
BandSign(sign, d) ==
    IF sign % 2 = 0
    THEN (IF RLt(d, RInt(5)) THEN 0 ELSE IF RLt(d, RInt(10)) THEN 10
          ELSE IF RLt(d, RInt(18)) THEN 8 ELSE IF RLt(d, RInt(25)) THEN 2
          ELSE 1)
    ELSE (IF RLt(d, RInt(5)) THEN 1 ELSE IF RLt(d, RInt(12)) THEN 2
          ELSE IF RLt(d, RInt(20)) THEN 8 ELSE IF RLt(d, RInt(25)) THEN 10
          ELSE 0)

\* C24: for every longitude calculate_trimsamsa returns the sign of the
\* band that holds the degree-in-sign d (odd signs: [0,5) 0, [5,10) 10,
\* [10,18) 8, [18,25) 2, [25,30) 1; even signs: [0,5) 1, [5,12) 2, [12,20) 8,
\* [20,25) 10, [25,30) 0), always one of 0, 1, 2, 8, 10, and the returned
\* degree is d unchanged.
C24_TrimsamsaBands ==
    op = "get_all_divisional_positions" =>
        /\ ret["D30"].rashi = BandSign(SignOf(arg), DegreeInSign(arg))
        /\ ret["D30"].rashi \in {0, 1, 2, 8, 10}
        /\ ret["D30"].degree = DegreeInSign(arg)

\* C30: the two navamsa implementations agree: for every longitude L in
\* [0, 360), calculate_navamsa of ephemeris.py (floor(L / (360/108)) mod 12)
\* returns the same sign as DivisionalCharts.calculate_navamsa(L).rashi.
C30_NavamsaImplementationsAgree ==
    op = "ephemeris.calculate_navamsa" =>
        ret = calculate_navamsa(arg).rashi

----------------------------------------------------------------------------
(* Further properties of the Ashtakavarga calculator.                      *)

\* The triad {t, t+4, t+8}, t = h mod 4, that contains house h.
TriadOf(h) ==
    { h % 4, (h % 4) + 4, (h % 4) + 8 }

\* The least value of a profile over a non-empty set of houses.
LeastOver(b, houses) ==
    CHOOSE v \in { b[h] : h \in houses } : \A h \in houses : v <= b[h]

\* C25: for every 12-entry profile b of non-negative integers,
\* trikona_reduction(b) returns r with r[h] = b[h] - min of the triad
\* {t, t+4, t+8} (t = h mod 4) containing h; every entry of r is
\* non-negative, each of the 4 triads contains a 0, the differences inside
\* a triad are preserved, reducing twice gives the same as reducing once,
\* and the input list b is left unchanged.
C25_TrikonaReduction ==
    op = "trikona_reduction" =>
        /\ \A h \in 0..11 :
               ret.reduced[h] = arg[h] - LeastOver(arg, TriadOf(h))
        /\ \A h \in 0..11 : ret.reduced[h] >= 0
        /\ \A t \in 0..3 : \E h \in TriadOf(t) : ret.reduced[h] = 0
        /\ \A h \in 0..11 : \A g \in TriadOf(h) :
               ret.reduced[h] - ret.reduced[g] = arg[h] - arg[g]
        /\ trikona_reduction(ret.reduced).reduced = ret.reduced
        /\ ret.bindus = arg

\* a profile whose four triads all have a positive minimum and unequal
\* entries has been reduced
C25_Witness ==
    /\ op = "trikona_reduction"
    /\ \A t \in 0..3 :
           /\ LeastOver(arg, TriadOf(t)) > 0
           /\ \E h \in TriadOf(t) : arg[h] > LeastOver(arg, TriadOf(t))
    /\ \A t \in 0..3 : \E h \in TriadOf(t) : ret.reduced[h] > 0

\* The total of each body's profile.
ProfileTotals ==
    [SUN |-> 48, MOON |-> 49, MARS |-> 39, MERCURY |-> 54, JUPITER |-> 56,
     VENUS |-> 52, SATURN |-> 39]

\* The sum of a column of the 8 x 12 matrix.
ColumnSum(prastara, sign) ==
    SumOver([row \in 1..8 |-> prastara[row][sign]], 1..8)

\* C29: the total of a per-body profile does not depend on the chart:
\* calculate_bhinnashtaka gives total_bindus 48 for SUN, 49 for MOON, 39 for
\* MARS, 54 for MERCURY, 56 for JUPITER, 52 for VENUS and 39 for SATURN; the
\* combined profile is the element-wise sum of the 7 per-body profiles, with
\* total_bindus 337; and for each body and sign the column sum of the 8 x 12
\* matrix from calculate_prastara equals the body's profile entry.
C29_TotalsAndPrastara ==
    /\ (op = "calculate_bhinnashtaka" /\ arg \in DOMAIN ProfileTotals) =>
           ret.total_bindus = ProfileTotals[arg]
    /\ op = "calculate_sarvashtaka" =>
           /\ DOMAIN ret.bhinnas = DOMAIN ProfileTotals
           /\ \A i \in 0..11 :
                  ret.bindus[i] =
                      SumOver([planet \in DOMAIN ProfileTotals |->
                                  ret.bhinnas[planet].bindus[i]],
                              DOMAIN ProfileTotals)
           /\ \A planet \in DOMAIN ProfileTotals :
                  ret.bhinnas[planet].total_bindus = ProfileTotals[planet]
           /\ ret.total_bindus = 337
    /\ (op = "calculate_prastara" /\ arg \in DOMAIN ProfileTotals) =>
           /\ DOMAIN ret = 1..8
           /\ \A sign \in 0..11 :
                  ColumnSum(ret, sign) =
                      calculate_bhinnashtaka(positions, ascendant_rashi, arg).bindus[sign]

\* the matrix of VENUS in a chart where all 8 sources reach one sign and
\* none reaches another
C29_Witness ==
    /\ op = "calculate_prastara"
    /\ arg = "VENUS"
    /\ \E sign \in 0..11 : ColumnSum(ret, sign) = 8
    /\ \E sign \in 0..11 : ColumnSum(ret, sign) = 0
    /\ DOMAIN positions = Range(Bodies)

----------------------------------------------------------------------------
(* Further properties of the Panchanga engine.                             *)

\* floor(((Moon - Sun) mod 360) / 6) + 1
KaranaNumber(sun, moon) ==
    RFloor(RDiv(PyFloatModPos(RSub(moon, sun), RInt(360)), RInt(6))) + 1

\* the karana of every Sun and Moon the engine is built with
AllKaranas ==
    { calculate_karana(sun, MoonAt(sun, elongation)) :
        sun \in SunLongitudes, elongation \in Elongations }

\* C26: for all Sun and Moon longitudes calculate_karana returns number =
\* floor(((Moon - Sun) mod 360) / 6) + 1, in 1..60; the numbers 1 and 57..60
\* are of type fixed and take the 4 fixed names, no fixed name being used
\* for more than one number; the numbers 2..56 are of type movable with
\* name MOVABLE_KARANAS[(number - 2) mod 7].
C26_Karana ==
    op = "calculate_karana" =>
        /\ ret.number = KaranaNumber(sun_longitude, moon_longitude)
        /\ ret.number \in 1..60
        /\ ret.number \in {1} \cup 57..60 =>
               /\ ret.type = "fixed"
               /\ ret.name \in Range(FIXED_KARANAS)
               /\ \A other \in AllKaranas :
                      other.name = ret.name => other.number = ret.number
        /\ ret.number \in 2..56 =>
               /\ ret.type = "movable"
               /\ ret.name = MOVABLE_KARANAS[((ret.number - 2) % 7) + 1]

----------------------------------------------------------------------------
(* Properties of the yoga calculator.                                      *)

\* The house of a sign: ((sign - ascendant sign) mod 12) + 1.
HouseOfSign(sign) ==
    ((sign - ascendant_rashi) % 12) + 1

\* The bodies of the chart that count as occupying a house next to the Moon.
NeighbourBodies ==
    DOMAIN positions \ {"MOON", "RAHU", "KETU", "ASCENDANT"}

\* No body in the 2nd or 12th house from the Moon, no benefic in a kendra.
KemadrumaCondition ==
    LET moon_house == HouseOfSign(positions["MOON"])
    IN  /\ \A planet \in NeighbourBodies :
               HouseOfSign(positions[planet])
                   \notin { (moon_house % 12) + 1, ((moon_house - 2) % 12) + 1 }
        /\ \A planet \in {"JUPITER", "VENUS", "MERCURY"} :
               HouseOfSign(positions[planet]) \notin {1, 4, 7, 10}

\* C27: detect_kemadruma_yoga reports is_present = true exactly when no
\* body other than the Moon (Rahu and Ketu not counted) occupies the 2nd or
\* the 12th house from the Moon's house and none of Jupiter, Venus, Mercury
\* is in house 1, 4, 7 or 10; also for the positions map of get_yogas, which
\* holds the ASCENDANT entry: that entry is not counted as a body.
C27_Kemadruma ==
    op = "detect_kemadruma_yoga" =>
        (ret.is_present <=> KemadrumaCondition)

\* The findings of a get_yogas result, bucket after bucket.
AllFindings(result) ==
    result.rajayogas \o result.dhana_yogas \o result.other_yogas

\* C28: each finding of detect_all_yogas has is_present = true and houses
\* in 1..12, those of its bodies being ((sign - ascendant sign) mod 12) + 1;
\* get_yogas places each finding in exactly one bucket by its category
\* (rajayogas for rajayoga and mahapurusha, dhana_yogas for dhana,
\* other_yogas for anything else), total_yogas is the sum of the three
\* bucket sizes, and no two findings of the result have the same name and
\* the same involved bodies.
C28_YogaBuckets ==
    /\ op = "detect_all_yogas" =>
           \A i \in DOMAIN ret :
               /\ ret[i].is_present
               /\ \A j \in DOMAIN ret[i].houses_involved :
                      ret[i].houses_involved[j] \in 1..12
               /\ ret[i].category \in {"mahapurusha", "daridra"}
                      \/ ret[i].name \in {"Gajakesari Yoga", "Budhaditya Yoga",
                                          "Kendra-Trikona Rajayoga"} =>
                      \A j \in DOMAIN ret[i].planets_involved :
                          ret[i].houses_involved[j] =
                              HouseOfSign(positions[ret[i].planets_involved[j]])
    /\ op = "get_yogas" =>
           /\ \A i \in DOMAIN ret.rajayogas :
                  ret.rajayogas[i].category \in {"rajayoga", "mahapurusha"}
           /\ \A i \in DOMAIN ret.dhana_yogas :
                  ret.dhana_yogas[i].category = "dhana"
           /\ \A i \in DOMAIN ret.other_yogas :
                  ret.other_yogas[i].category
                      \notin {"rajayoga", "mahapurusha", "dhana"}
           /\ ret.total_yogas = Len(ret.rajayogas) + Len(ret.dhana_yogas)
                                    + Len(ret.other_yogas)
           /\ \A i, j \in DOMAIN AllFindings(ret) :
                  /\ AllFindings(ret)[i].name = AllFindings(ret)[j].name
                  /\ AllFindings(ret)[i].planets_involved
                         = AllFindings(ret)[j].planets_involved
                  => i = j

====
